---- MODULE Spec2Model ----
(***************************************************************************)
(* State-machine model of the interview-monitoring detector                *)
(* (DetectionManager) of Web_Application.  The repository holds three      *)
(* revisions of the class:                                                 *)
(*   "basic"  : src/unnamed/part_001 (isTabActive / hasAIUsage only)       *)
(*   "first"  : utils/detectionUtils.ts lines 1-526 (capped string history)*)
(*   "second" : utils/detectionUtils.ts lines 528-1324 (structured history,*)
(*              weighted AI score)                                         *)
(* The variable rev fixes the revision a behaviour is about.  Time is the  *)
(* value of Date.now() in milliseconds.  The screenshot manager            *)
(* (utils/screenshots.ts) and the media-permission hooks                   *)
(* (hooks/useScreenCapture.ts, hooks/useCamera.ts) are modelled next to    *)
(* it, each in a variable of its own.                                      *)
(***************************************************************************)
EXTENDS Integers, Sequences, FiniteSets, TLC

VARIABLES
    rev,                  \* which revision of DetectionManager is running
    now,                  \* Date.now(), ms
    state,                \* this.state (DetectionState)
    options,              \* this.options (DetectionOptions)
    timers,               \* pending setTimeout timers: records [id, kind, due]
    inactivityTimer,      \* this.inactivityTimer: 0 (null), -1 (stale) or a pending id
    screenFocusTimer,     \* this.screenFocusTimer: 0 (null), -1 (stale) or a pending id
    pollInterval,         \* TRUE while the setInterval of startAIUsageDetection runs
    listeners,            \* DOM listeners registered: records [event, fn]
    lastMousePosition,    \* this.lastMousePosition
    mouseMovementCount,   \* this.mouseMovementCount
    typingStartTime,      \* this.typingStartTime (0: null, else ms)
    typingCharacterCount, \* this.typingCharacterCount
    documentVisible,      \* document.visibilityState === "visible"
    probe,                \* checkMultipleScreens continuation: "pending" / "done"
    emitted,              \* events emitted by the last handler run, in order
    thrown,               \* TRUE iff the last handler run ended by throwing
    manager,              \* the ScreenshotManager singleton and its calls in flight
    hook                  \* a useScreenCapture / useCamera instance

vars == <<rev, now, state, options, timers, inactivityTimer, screenFocusTimer,
          pollInterval, listeners, lastMousePosition, mouseMovementCount,
          typingStartTime, typingCharacterCount, documentVisible, probe, emitted,
          thrown, manager, hook>>

(***************************************************************************)
(* Strings.  TLC treats a string as a sequence of characters for Len,      *)
(* SubSeq and \o; a character is a string of length one.                   *)
(***************************************************************************)
Min(a, b) == IF a < b THEN a ELSE b

CharAt(s, i) == SubSeq(s, i, i)

Upper == "ABCDEFGHIJKLMNOPQRSTUVWXYZ"
Lower == "abcdefghijklmnopqrstuvwxyz"
Digits == "0123456789"

InString(c, s) == \E i \in 1..Len(s) : CharAt(s, i) = c

\* String.prototype.toLowerCase on one character
LowerChar(c) ==
    IF InString(c, Upper)
    THEN CharAt(Lower, CHOOSE i \in 1..Len(Upper) : CharAt(Upper, i) = c)
    ELSE c

RECURSIVE ToLowerCase(_)
ToLowerCase(s) ==
    IF Len(s) = 0 THEN ""
    ELSE LowerChar(CharAt(s, 1)) \o ToLowerCase(SubSeq(s, 2, Len(s)))

\* String.prototype.includes
Includes(s, p) ==
    \E i \in 1..(Len(s) - Len(p) + 1) : SubSeq(s, i, i + Len(p) - 1) = p

(***************************************************************************)
(* Regular expressions of the catalogs.  A pattern is                      *)
(*   [src, atStart, atEnd, items]                                          *)
(* where src is RegExp.prototype.toString(), atStart / atEnd are the ^ / $ *)
(* anchors and items is a sequence of [cls, ch, min, max] (max = -1: no    *)
(* upper limit).  Every pattern of the catalogs carries the i flag.        *)
(***************************************************************************)
IsSpace(c) == c \in {" ", "\t", "\n", "\r", "\f"}
IsLetter(c) == InString(c, Upper) \/ InString(c, Lower)
IsDigit(c) == InString(c, Digits)
IsWord(c) == IsLetter(c) \/ IsDigit(c) \/ c = "_"

InClass(it, c) ==
    CASE it.cls = "lit"   -> LowerChar(c) = LowerChar(it.ch)
      [] it.cls = "space" -> IsSpace(c)                 \* \s
      [] it.cls = "word"  -> IsWord(c)                  \* \w
      [] it.cls = "alpha" -> IsLetter(c)                \* [a-z] or [A-Z] with /i
      [] it.cls = "digit" -> IsDigit(c)                 \* [0-9]
      [] it.cls = "dot"   -> c \notin {"\n", "\r"}      \* .
      [] it.cls = "all"   -> TRUE                       \* [\s\S]
      [] it.cls = "not"   -> c # it.ch                  \* [^x]

Item(cls, ch, lo, hi) == [cls |-> cls, ch |-> ch, min |-> lo, max |-> hi]
One(cls) == <<Item(cls, "", 1, 1)>>
Plus(cls) == <<Item(cls, "", 1, -1)>>
Star(cls) == <<Item(cls, "", 0, -1)>>
AtLeast(cls, n) == <<Item(cls, "", n, -1)>>
StarNot(ch) == <<Item("not", ch, 0, -1)>>
L(s) == [i \in 1..Len(s) |-> Item("lit", CharAt(s, i), 1, 1)]

Re(src, items) == [src |-> src, atStart |-> FALSE, atEnd |-> FALSE, items |-> items]
ReWhole(src, items) == [src |-> src, atStart |-> TRUE, atEnd |-> TRUE, items |-> items]

RECURSIVE MatchFrom(_, _, _, _, _)
MatchFrom(items, k, s, pos, atEnd) ==
    IF k > Len(items)
    THEN (~atEnd) \/ pos = Len(s) + 1
    ELSE LET it == items[k]
             avail == Len(s) - pos + 1
             hi == IF it.max = -1 THEN avail ELSE Min(it.max, avail)
         IN  \E n \in it.min..hi :
                /\ \A j \in 0..(n - 1) : InClass(it, CharAt(s, pos + j))
                /\ MatchFrom(items, k + 1, s, pos + n, atEnd)

\* RegExp.prototype.test (the patterns have no g flag, so test is stateless)
Test(p, s) ==
    \E start \in (IF p.atStart THEN {1} ELSE 1..(Len(s) + 1)) :
        MatchFrom(p.items, 1, s, start, p.atEnd)

(***************************************************************************)
(* Pattern catalogs.  The grave accent cannot be written in a TLA+ string: *)
(* the character ~ stands for it (no catalog entry and no input of the     *)
(* model holds a real tilde).                                              *)
(***************************************************************************)
Lit(word) == Re("/" \o word \o "/i", L(word))

\* first revision: private aiDetectionPatterns (regular expressions)
aiDetectionPatternsFirst == <<
    Lit("chatgpt"), Lit("bard"), Lit("claude"), Lit("copilot"), Lit("gpt"),
    Lit("openai"), Lit("anthropic"), Lit("gemini"), Lit("perplexity"),
    Lit("midjourney"), Lit("dall-e"), Lit("stable diffusion"), Lit("jupyter"),
    Lit("colab"), Lit("kaggle"),
    Lit("stack overflow"), Lit("github"), Lit("leetcode"), Lit("hackerrank"),
    Lit("codechef"), Lit("geeksforgeeks"), Lit("codeforces"), Lit("replit"),
    Lit("codesandbox"), Lit("codepen"),
    Lit("artificial intelligence"), Lit("machine learning"),
    Lit("neural network"), Lit("deep learning"), Lit("large language model"),
    Lit("transformer"), Lit("attention mechanism"), Lit("reinforcement learning"),
    Re("/ctrl\\+c/i", L("ctrl+c")), Re("/ctrl\\+v/i", L("ctrl+v")),
    Re("/ctrl\\+a/i", L("ctrl+a")), Re("/cmd\\+c/i", L("cmd+c")),
    Re("/cmd\\+v/i", L("cmd+v")), Re("/cmd\\+a/i", L("cmd+a")),
    Re("/ctrl\\+shift\\+v/i", L("ctrl+shift+v")),
    Re("/cmd\\+shift\\+v/i", L("cmd+shift+v")),
    Re("/~~~[\\s\\S]*?~~~/i", L("~~~") \o Star("all") \o L("~~~")),
    Re("/<code>[\\s\\S]*?<\\/code>/i", L("<code>") \o Star("all") \o L("</code>")),
    Re("/<pre>[\\s\\S]*?<\\/pre>/i", L("<pre>") \o Star("all") \o L("</pre>"))
>>

\* private suspiciousPatterns (the same catalog in the first and second revision)
suspiciousPatternsCatalog == <<
    ReWhole("/^[a-z]{8,}$/i", AtLeast("alpha", 8)),
    ReWhole("/^[A-Z]{8,}$/i", AtLeast("alpha", 8)),
    ReWhole("/^[0-9]{8,}$/i", AtLeast("digit", 8)),
    Re("/function\\s+\\w+\\s*\\([^)]*\\)\\s*{/i",
       L("function") \o Plus("space") \o Plus("word") \o Star("space") \o L("(")
         \o StarNot(")") \o L(")") \o Star("space") \o L("{")),
    Re("/class\\s+\\w+\\s*{/i",
       L("class") \o Plus("space") \o Plus("word") \o Star("space") \o L("{")),
    Re("/import\\s+.*from/i",
       L("import") \o Plus("space") \o Star("dot") \o L("from")),
    Re("/const\\s+\\w+\\s*=/i",
       L("const") \o Plus("space") \o Plus("word") \o Star("space") \o L("=")),
    Re("/let\\s+\\w+\\s*=/i",
       L("let") \o Plus("space") \o Plus("word") \o Star("space") \o L("=")),
    Re("/var\\s+\\w+\\s*=/i",
       L("var") \o Plus("space") \o Plus("word") \o Star("space") \o L("=")),
    Re("/async\\s+function/i", L("async") \o Plus("space") \o L("function")),
    Re("/=>\\s*{/i", L("=>") \o Star("space") \o L("{")),
    Re("/new\\s+Promise/i", L("new") \o Plus("space") \o L("Promise")),
    Re("/console\\.log/i", L("console.log")),
    Re("/return\\s+.*;/i", L("return") \o Plus("space") \o Star("dot") \o L(";")),
    Re("/if\\s*\\([^)]*\\)/i",
       L("if") \o Star("space") \o L("(") \o StarNot(")") \o L(")")),
    Re("/for\\s*\\([^)]*\\)/i",
       L("for") \o Star("space") \o L("(") \o StarNot(")") \o L(")")),
    Re("/while\\s*\\([^)]*\\)/i",
       L("while") \o Star("space") \o L("(") \o StarNot(")") \o L(")")),
    Re("/try\\s*{/i", L("try") \o Star("space") \o L("{")),
    Re("/catch\\s*\\([^)]*\\)/i",
       L("catch") \o Star("space") \o L("(") \o StarNot(")") \o L(")")),
    Re("/finally\\s*{/i", L("finally") \o Star("space") \o L("{")),
    Lit("time complexity"), Lit("space complexity"), Lit("big o"),
    Lit("algorithm"), Lit("data structure"), Lit("optimization"),
    Lit("recursion"), Lit("dynamic programming"),
    Lit("bubble sort"), Lit("quick sort"), Lit("merge sort"),
    Lit("binary search"), Lit("hash table"), Lit("linked list"),
    Lit("binary tree"), Lit("graph")
>>

\* second revision: private aiDetectionPatterns (lower-case phrases)
aiDetectionPatternsSecond == <<
    "chatgpt", "gpt-", "bard", "claude", "anthropic", "openai", "copilot",
    "github copilot", "codex", "dall-e", "midjourney", "stable diffusion",
    "here's a comprehensive answer", "let me explain this in detail",
    "here's a step-by-step solution", "based on the provided information",
    "according to the given context", "here's a detailed explanation",
    "let me break this down", "here's a structured response",
    "~~~python", "~~~javascript", "~~~typescript", "~~~java", "~~~cpp",
    "~~~sql", "~~~html", "~~~css",
    "in conclusion", "to summarize", "in summary", "therefore", "thus",
    "consequently", "as a result",
    "here's a sample answer", "here's a model response",
    "here's an example solution", "here's a template answer",
    "here's a suggested response", "here's a recommended approach",
    "algorithm", "implementation", "optimization", "complexity", "efficiency",
    "performance", "scalability", "architecture",
    "first, let's", "next, we'll", "then, we can", "finally, we should",
    "in the first step", "in the next step", "in the final step",
    "generally speaking", "typically", "usually", "commonly", "in most cases",
    "in general", "as a general rule",
    "here's how you can answer", "here's a good way to respond",
    "here's an effective answer", "here's a strong response",
    "here's a comprehensive answer", "here's a well-structured response",
    "function", "class", "method", "interface", "implementation",
    "inheritance", "polymorphism", "encapsulation",
    "moving forward", "proceeding with", "continuing with", "following this",
    "subsequently", "thereafter", "consequently",
    "this should help you answer", "this will guide you through",
    "this provides a framework for", "this gives you a structure for",
    "this offers a template for", "this serves as a model for"
>>

\* src/unnamed/part_001: the patterns of detectAIPatterns
aiPatternsBasic == <<
    Lit("generated by"), Lit("created by"), Lit("powered by"),
    Lit("assistant"), Lit("AI")
>>

(***************************************************************************)
(* Inputs of the environment.                                              *)
(***************************************************************************)
Texts == {"", "hello", "chatgpt", "const x = 1; return x;",
          "ChatGPT: in summary, the algorithm", "Generated by AI",
          "Consequently", "implementation, therefore"}

\* event.target of a clipboard event: an element, or null (isNull)
InputEl == [isNull |-> FALSE, tagName |-> "INPUT", id |-> "answer", className |-> "",
            contentEditable |-> "inherit", role |-> ""]
DivEl == [isNull |-> FALSE, tagName |-> "DIV", id |-> "", className |-> "question",
          contentEditable |-> "inherit", role |-> ""]
NullTarget == [isNull |-> TRUE, tagName |-> "", id |-> "", className |-> "",
               contentEditable |-> "", role |-> ""]
Targets == {NullTarget, InputEl, DivEl}

Href == "app://interview"          \* window.location.href

(***************************************************************************)
(* Cached results of the catalog matches on the input texts (the catalogs  *)
(* and the texts are constants, so each match is computed once).           *)
(***************************************************************************)
\* aiDetectionPatterns.some((pattern) => pattern.test(text)), first revision
someAIPattern ==
    [t \in Texts |->
        \E i \in DOMAIN aiDetectionPatternsFirst : Test(aiDetectionPatternsFirst[i], t)]

\* suspiciousPatterns.filter((pattern) => pattern.test(text)), as toString()s
filterSuspicious ==
    [t \in Texts |->
        LET hit == SelectSeq(suspiciousPatternsCatalog, LAMBDA p : Test(p, t))
        IN  [i \in DOMAIN hit |-> hit[i].src]]

\* the phrases of the second catalog that lowerText.includes, in catalog order
detectedPatterns ==
    [t \in Texts |->
        SelectSeq(aiDetectionPatternsSecond, LAMBDA p : Includes(ToLowerCase(t), p))]

\* detectAIPatterns of src/unnamed/part_001
detectAIPatterns ==
    [t \in Texts |-> \E i \in DOMAIN aiPatternsBasic : Test(aiPatternsBasic[i], t)]

\* Array.prototype.join(", ")
RECURSIVE Join(_)
Join(seq) ==
    IF Len(seq) = 0 THEN ""
    ELSE IF Len(seq) = 1 THEN seq[1]
    ELSE seq[1] \o ", " \o Join(Tail(seq))

(***************************************************************************)
(* Numbers.  typingSpeed is the quotient num / den kept exact; den = 0     *)
(* with num > 0 is the IEEE value Infinity (a division by zero seconds).   *)
(***************************************************************************)
Speed(n, d) == [num |-> n, den |-> d]
ZeroSpeed == Speed(0, 1)
\* speed > k
SpeedExceeds(sp, k) ==
    IF sp.den = 0 THEN sp.num > 0 ELSE sp.num > k * sp.den

Abs(x) == IF x < 0 THEN -x ELSE x

(***************************************************************************)
(* DetectionState and DetectionOptions.                                    *)
(***************************************************************************)
Revisions == {"basic", "first", "second"}

\* field initializer of this.state, first revision
initialStateFirst(t) ==
    [isTabActive |-> TRUE, hasAIUsage |-> FALSE, hasTabSwitch |-> FALSE,
     lastActiveTime |-> t, tabSwitchCount |-> 0, aiDetectionCount |-> 0,
     hasMultipleScreens |-> FALSE, hasScreenFocus |-> TRUE,
     hasSuspiciousActivity |-> FALSE, mousePosition |-> [x |-> 0, y |-> 0],
     keyboardActivity |-> FALSE, lastMouseMove |-> t, lastKeyPress |-> t,
     typingSpeed |-> ZeroSpeed, rapidTypingCount |-> 0,
     clipboardHistory |-> <<>>, suspiciousPatterns |-> <<>>]

\* field initializer of this.state, second revision
initialStateSecond(t) ==
    [isTabActive |-> TRUE, hasAIUsage |-> FALSE, hasTabSwitch |-> FALSE,
     lastActiveTime |-> t, tabSwitchCount |-> 0, aiDetectionCount |-> 0,
     hasMultipleScreens |-> FALSE, hasScreenFocus |-> TRUE,
     hasSuspiciousActivity |-> FALSE, mousePosition |-> [x |-> 0, y |-> 0],
     keyboardActivity |-> TRUE, lastMouseMove |-> t, lastKeyPress |-> t,
     typingSpeed |-> ZeroSpeed, rapidTypingCount |-> 0,
     clipboardHistory |-> <<>>, suspiciousPatterns |-> <<>>,
     screenInactiveCount |-> 0, lastClipboardOperation |-> t,
     clipboardOperationCount |-> 0, webClipboardCount |-> 0]

\* field initializer of this.state, src/unnamed/part_001
initialStateBasic(t) ==
    [isTabActive |-> TRUE, hasAIUsage |-> FALSE, lastActivity |-> t]

\* field initializer of this.options (the same in both revisions)
defaultOptions ==
    [maxTabSwitches |-> 1, aiDetectionThreshold |-> 1, inactivityTimeout |-> 10000,
     suspiciousActivityThreshold |-> 2, mouseMovementThreshold |-> 600,
     screenFocusTimeout |-> 2000, typingSpeedThreshold |-> 150,
     rapidTypingThreshold |-> 1, clipboardHistorySize |-> 5,
     patternDetectionThreshold |-> 2]

(***************************************************************************)
(* DOM listeners.  A listener is [event, fn]; fn is the identity of the    *)
(* function object.  this.h.bind(this) makes a new function object at each *)
(* evaluation, named here by the call site; an arrow-function property is  *)
(* one object for the life of the manager.                                 *)
(***************************************************************************)
Bound(handler, site) == <<"bind", handler, site>>
Property(handler) == <<"property", handler>>
Listener(ev, fn) == [event |-> ev, fn |-> fn]

addEventListener(ls, ev, fn) == ls \cup {Listener(ev, fn)}
removeEventListener(ls, ev, fn) == ls \ {Listener(ev, fn)}
Listens(ev) == \E l \in listeners : l.event = ev

\* initializeDetections, first revision
initializeDetectionsFirst ==
    {Listener("visibilitychange", Bound("handleVisibilityChange", "initializeDetections")),
     Listener("paste", Bound("handlePaste", "initializeDetections")),
     Listener("keydown", Bound("handleKeyPress", "initializeDetections")),
     Listener("mousemove", Bound("handleMouseMove", "initializeDetections")),
     Listener("focus", Bound("handleScreenFocus", "initializeDetections")),
     Listener("blur", Bound("handleScreenBlur", "initializeDetections"))}

\* initializeDetections with startClipboardMonitoring, second revision
initializeDetectionsSecond ==
    {Listener("visibilitychange", Bound("handleVisibilityChange", "initializeDetections")),
     Listener("paste", Property("handlePaste")),
     Listener("copy", Property("handleCopy")),
     Listener("keydown", Bound("handleKeyPress", "initializeDetections")),
     Listener("mousemove", Bound("handleMouseMove", "initializeDetections")),
     Listener("focus", Bound("handleScreenFocus", "initializeDetections")),
     Listener("blur", Bound("handleScreenBlur", "initializeDetections"))}

\* setupEventListeners of src/unnamed/part_001 (anonymous arrow functions)
setupEventListeners ==
    {Listener("visibilitychange", <<"arrow", "visibilitychange">>),
     Listener("paste", <<"arrow", "paste">>),
     Listener("keydown", <<"arrow", "keydown">>)}

(***************************************************************************)
(* A handler run.  The fields of the manager a handler may write are       *)
(* gathered in a record m (st = this.state, em = the events emitted so     *)
(* far, tm = the pending timers, ret = the value a call returned); each    *)
(* method of the class is an operator from m to m, composed in program     *)
(* order, and Commit writes the result back.                               *)
(*                                                                         *)
(* now is what the clock reads when the run starts.  addSuspiciousPattern  *)
(* reads the clock twice, once for the timestamp of the entry and once for *)
(* the 5000 ms test; the millisecond clock may tick between the two reads, *)
(* and drift is by how much: the later of the two reads is now + drift.    *)
(***************************************************************************)
MaxDrift == 1
Drift == 0..MaxDrift

Cur ==
    [st |-> state, em |-> <<>>, tm |-> timers, it |-> inactivityTimer,
     sft |-> screenFocusTimer, lmp |-> lastMousePosition,
     mmc |-> mouseMovementCount, tst |-> typingStartTime,
     tcc |-> typingCharacterCount, thrown |-> FALSE, ret |-> FALSE, drift |-> 0]

CurAt(d) == [Cur EXCEPT !.drift = d]

\* Timer ids are positive.  A handle whose timer has fired or was cleared is
\* written -1 (stale, still truthy): the browser never issues an id twice, so
\* clearTimeout of it does nothing.  0 is null.
Handle(h, tm) ==
    IF h <= 0 \/ (\E t \in tm : t.id = h) THEN h ELSE -1

Commit(m) ==
    /\ state' = m.st
    /\ emitted' = m.em
    /\ timers' = m.tm
    /\ inactivityTimer' = Handle(m.it, m.tm)
    /\ screenFocusTimer' = Handle(m.sft, m.tm)
    /\ lastMousePosition' = m.lmp
    /\ mouseMovementCount' = m.mmc
    /\ typingStartTime' = m.tst
    /\ typingCharacterCount' = m.tcc
    /\ thrown' = m.thrown
    /\ UNCHANGED <<manager, hook>>

\* this.emit(topic, payload)
emit(m, topic, payload) ==
    [m EXCEPT !.em = Append(@, [topic |-> topic, payload |-> payload])]

\* this.emit("stateChange", { ...this.state })
emitStateChange(m) == emit(m, "stateChange", m.st)

\* setTimeout(callback, delay): the new timer's id is returned in ret
FreshId(tm) ==
    CHOOSE i \in 1..(Cardinality(tm) + 1) :
        /\ \A t \in tm : t.id # i
        /\ \A j \in 1..(i - 1) : \E t \in tm : t.id = j

setTimeout(m, kind, delay) ==
    LET id == FreshId(m.tm)
    IN  [m EXCEPT !.tm = @ \cup {[id |-> id, kind |-> kind, due |-> now + delay]},
                  !.ret = id]

clearTimeout(m, h) == [m EXCEPT !.tm = {t \in @ : t.id # h}]

\* a faulty callback that lets the flag be (C7 must fail against it)
timerCallbackWithoutFlag(m) == emitStateChange(m)

\* the callback of both timers
timerCallback(m) ==
    emitStateChange([m EXCEPT !.st.hasSuspiciousActivity = TRUE])

(***************************************************************************)
(* Private methods.                                                        *)
(***************************************************************************)
\* addSuspiciousPattern(type, message), first revision: Date.now() in the
\* find, then new Date() in the push
addSuspiciousPatternFirst(m, type, message) ==
    LET recent == \E i \in DOMAIN m.st.suspiciousPatterns :
                      LET p == m.st.suspiciousPatterns[i]
                      IN  /\ p.type = type
                          /\ p.message = message
                          /\ now - p.timestamp < 5000
    IN  IF ~recent
        THEN [m EXCEPT !.st.suspiciousPatterns =
                 Append(@, [type |-> type, message |-> message,
                            timestamp |-> now + m.drift])]
        ELSE m

\* addSuspiciousPattern(pattern), second revision: the caller made the
\* pattern with timestamp: new Date(), then Date.now() is read in the filter
addSuspiciousPatternSecond(m, type, message) ==
    LET recentPatterns ==
            SelectSeq(m.st.suspiciousPatterns,
                      LAMBDA p : /\ p.type = type
                                 /\ p.message = message
                                 /\ (now + m.drift) - p.timestamp < 5000)
    IN  IF Len(recentPatterns) = 0
        THEN emitStateChange(
                 [m EXCEPT !.st.suspiciousPatterns =
                     Append(@, [type |-> type, message |-> message,
                                timestamp |-> now])])
        ELSE m

addSuspiciousPattern(m, type, message) ==
    IF rev = "first" THEN addSuspiciousPatternFirst(m, type, message)
    ELSE addSuspiciousPatternSecond(m, type, message)

\* checkAIUsageThreshold (both revisions)
checkAIUsageThreshold(m) ==
    IF m.st.aiDetectionCount >= options.aiDetectionThreshold
    THEN emitStateChange([m EXCEPT !.st.hasAIUsage = TRUE])
    ELSE m

\* checkForAIUsage(text), first revision
checkForAIUsageFirst(m, text) ==
    LET hasAIPattern == someAIPattern[text]
    IN  IF hasAIPattern
        THEN checkAIUsageThreshold([m EXCEPT !.st.aiDetectionCount = @ + 1])
        ELSE m

\* checkForAIUsage(text) of the second revision with every catalog phrase
\* counted once, however often the catalog lists it
checkForAIUsageCountingOnce(m, text) ==
    LET detected == detectedPatterns[text]
        aiPatternCount ==
            Cardinality({detected[i] : i \in DOMAIN detected})
            + (IF SpeedExceeds(m.st.typingSpeed, 150) THEN 2 ELSE 0)
            + (IF Len(m.st.clipboardHistory) > 5 THEN 1 ELSE 0)
        m1 == IF Len(detected) > 0
              THEN addSuspiciousPatternSecond(
                       m, "ai", "AI-like patterns detected: " \o Join(detected))
              ELSE m
    IN  [m1 EXCEPT !.ret = (aiPatternCount >= 3)]

\* checkForAIUsage(text), second revision: the boolean result is in ret
checkForAIUsageSecond(m, text) ==
    LET detected == detectedPatterns[text]
        aiPatternCount ==
            Len(detected)
            + (IF SpeedExceeds(m.st.typingSpeed, 150) THEN 2 ELSE 0)
            + (IF Len(m.st.clipboardHistory) > 5 THEN 1 ELSE 0)
        m1 == IF Len(detected) > 0
              THEN addSuspiciousPatternSecond(
                       m, "ai", "AI-like patterns detected: " \o Join(detected))
              ELSE m
    IN  [m1 EXCEPT !.ret = (aiPatternCount >= 3)]

\* patterns.forEach((pattern) => this.addSuspiciousPattern("code", pattern.toString()))
RECURSIVE addEach(_, _)
addEach(m, srcs) ==
    IF Len(srcs) = 0 THEN m
    ELSE addEach(addSuspiciousPatternFirst(m, "code", Head(srcs)), Tail(srcs))

\* checkForSuspiciousPatterns(text), first revision
checkForSuspiciousPatternsFirst(m, text) ==
    LET patterns == filterSuspicious[text]
    IN  IF Len(patterns) > 0
        THEN LET m1 == addEach(m, patterns)
             IN  IF Len(m1.st.suspiciousPatterns) >= options.patternDetectionThreshold
                 THEN [m1 EXCEPT !.st.hasSuspiciousActivity = TRUE]
                 ELSE m1
        ELSE m

\* checkSuspiciousActivity (both revisions)
checkSuspiciousActivity(m) ==
    IF m.mmc > options.suspiciousActivityThreshold
    THEN emitStateChange([m EXCEPT !.st.hasSuspiciousActivity = TRUE])
    ELSE m

\* resetInactivityTimer, were it to arm without clearing the handle it holds
resetInactivityTimerWithoutClear(m) ==
    LET m2 == setTimeout(m, "inactivity", options.inactivityTimeout)
    IN  [m2 EXCEPT !.it = m2.ret]

\* resetInactivityTimer (both revisions)
resetInactivityTimer(m) ==
    LET m1 == IF m.it # 0 THEN clearTimeout(m, m.it) ELSE m
        m2 == setTimeout(m1, "inactivity", options.inactivityTimeout)
    IN  [m2 EXCEPT !.it = m2.ret]

\* isUnnaturalMovement (checkRegularIntervals returns false)
isUnnaturalMovement(deltaX, deltaY) ==
    LET isStraightLine == Abs(deltaX) = 0 \/ Abs(deltaY) = 0
        isDiagonal == Abs(deltaX) = Abs(deltaY)
        isRegularInterval == FALSE
    IN  isStraightLine \/ isDiagonal \/ isRegularInterval

\* checkTypingPatterns (both revisions)
checkTypingPatterns(m) ==
    IF m.tst = 0 THEN m                       \* !this.typingStartTime
    ELSE
        LET elapsedMs == now - m.tst          \* timeElapsed * 1000
            charsPerMinute == Speed(m.tcc * 60 * 1000, elapsedMs)
            m1 == [m EXCEPT !.st.typingSpeed = charsPerMinute]
            m2 == IF SpeedExceeds(charsPerMinute, options.typingSpeedThreshold)
                  THEN LET m3 == [m1 EXCEPT !.st.rapidTypingCount = @ + 1]
                       IN  IF m3.st.rapidTypingCount >= options.rapidTypingThreshold
                           THEN addSuspiciousPattern(
                                    [m3 EXCEPT !.st.hasSuspiciousActivity = TRUE],
                                    "typing", "Rapid typing detected")
                           ELSE m3
                  ELSE m1
        IN  IF elapsedMs > 5 * 1000
            THEN [m2 EXCEPT !.tst = 0, !.tcc = 0]
            ELSE m2

\* detectClipboardSource (second revision)
ClassIncludes(target, word) == Includes(target.className, word)

detectClipboardSource(target) ==
    IF (~target.isNull)
       /\ (\/ target.tagName = "INPUT" \/ target.tagName = "TEXTAREA"
           \/ target.contentEditable = "true"
           \/ target.role = "textbox"
           \/ ClassIncludes(target, "editor") \/ ClassIncludes(target, "code")
           \/ ClassIncludes(target, "monaco")
           \/ ClassIncludes(target, "rich-text") \/ ClassIncludes(target, "wysiwyg"))
    THEN "web"
    ELSE "system"

\* detectClipboardSource and tagName.toLowerCase() on the targets of the model,
\* computed once
sourceOf == [t \in Targets |-> detectClipboardSource(t)]
elementTypeOf == [t \in Targets |-> ToLowerCase(t.tagName)]

\* x || "unknown"
OrUnknown(x) == IF x = "" THEN "unknown" ELSE x

\* the context object of handlePaste / handleCopy (second revision)
clipboardContext(target) ==
    [elementType |-> elementTypeOf[target],
     elementId |-> OrUnknown(target.id),
     elementClass |-> OrUnknown(target.className),
     isInput |-> (target.tagName = "INPUT" \/ target.tagName = "TEXTAREA"),
     isContentEditable |-> (target.contentEditable = "true"),
     timestamp |-> now]

(***************************************************************************)
(* Event handlers, as operators from m to m.                               *)
(***************************************************************************)
\* handleVisibilityChange, first revision
handleVisibilityChangeFirst(m, isActive) ==
    LET m1 == IF ~isActive
              THEN emitStateChange(checkSuspiciousActivity(
                       [m EXCEPT !.st.tabSwitchCount = @ + 1,
                                 !.st.hasTabSwitch = TRUE,
                                 !.st.lastActiveTime = now]))
              ELSE m
    IN  [m1 EXCEPT !.st.isTabActive = isActive]

\* handleVisibilityChange, second revision
handleVisibilityChangeSecond(m, isVisible) ==
    LET m1 == IF ~isVisible
              THEN [m EXCEPT !.st.screenInactiveCount = @ + 1,
                             !.st.hasScreenFocus = FALSE]
              ELSE [m EXCEPT !.st.hasScreenFocus = TRUE]
    IN  emitStateChange([m1 EXCEPT !.st.lastActiveTime = now])

\* handleScreenFocus, were it to start the count of blurs afresh
handleScreenFocusClearingCount(m) ==
    LET m0 == IF "screenInactiveCount" \in DOMAIN m.st
              THEN [m EXCEPT !.st.screenInactiveCount = 0] ELSE m
        m1 == [m0 EXCEPT !.st.hasScreenFocus = TRUE]
        m2 == IF m1.sft # 0 THEN clearTimeout(m1, m1.sft) ELSE m1
    IN  emitStateChange(m2)

\* handleScreenFocus (both revisions)
handleScreenFocus(m) ==
    LET m1 == [m EXCEPT !.st.hasScreenFocus = TRUE]
        m2 == IF m1.sft # 0 THEN clearTimeout(m1, m1.sft) ELSE m1
    IN  emitStateChange(m2)

\* handleScreenBlur, first revision
handleScreenBlurFirst(m) ==
    LET m1 == [m EXCEPT !.st.hasScreenFocus = FALSE]
        m2 == setTimeout(m1, "screenFocus", options.screenFocusTimeout)
    IN  [m2 EXCEPT !.sft = m2.ret]

\* handleScreenBlur, second revision
handleScreenBlurSecond(m) ==
    LET m1 == [m EXCEPT !.st.hasScreenFocus = FALSE,
                        !.st.screenInactiveCount = @ + 1]
        m2 == setTimeout(m1, "screenFocus", options.screenFocusTimeout)
    IN  emitStateChange([m2 EXCEPT !.sft = m2.ret])

\* handleMouseMove, were it to flag when the count reaches the threshold
handleMouseMoveFlaggingAtThreshold(m, clientX, clientY) ==
    LET m1 == resetInactivityTimer(m)
        m2 == [m1 EXCEPT !.st.lastMouseMove = now,
                         !.st.mousePosition = [x |-> clientX, y |-> clientY]]
        deltaX == Abs(clientX - m.lmp.x)
        deltaY == Abs(clientY - m.lmp.y)
        m3 == IF deltaX + deltaY > options.mouseMovementThreshold
              THEN LET m4 == [m2 EXCEPT !.mmc = @ + 1]
                   IN  IF m4.mmc >= options.suspiciousActivityThreshold
                       THEN addSuspiciousPattern(
                                [m4 EXCEPT !.st.hasSuspiciousActivity = TRUE],
                                "mouse", "Rapid mouse movement detected")
                       ELSE m4
              ELSE m2
        m5 == IF isUnnaturalMovement(deltaX, deltaY)
              THEN addSuspiciousPattern(m3, "mouse", "Unnatural mouse movement detected")
              ELSE m3
    IN  emitStateChange([m5 EXCEPT !.lmp = [x |-> clientX, y |-> clientY]])

\* handleMouseMove (both revisions; they differ in addSuspiciousPattern only)
handleMouseMove(m, clientX, clientY) ==
    LET m1 == resetInactivityTimer(m)
        m2 == [m1 EXCEPT !.st.lastMouseMove = now,
                         !.st.mousePosition = [x |-> clientX, y |-> clientY]]
        deltaX == Abs(clientX - m.lmp.x)
        deltaY == Abs(clientY - m.lmp.y)
        totalMovement == deltaX + deltaY
        m3 == IF totalMovement > options.mouseMovementThreshold
              THEN LET m4 == [m2 EXCEPT !.mmc = @ + 1]
                   IN  IF m4.mmc > options.suspiciousActivityThreshold
                       THEN addSuspiciousPattern(
                                [m4 EXCEPT !.st.hasSuspiciousActivity = TRUE],
                                "mouse", "Rapid mouse movement detected")
                       ELSE m4
              ELSE m2
        m5 == IF isUnnaturalMovement(deltaX, deltaY)
              THEN addSuspiciousPattern(m3, "mouse", "Unnatural mouse movement detected")
              ELSE m3
    IN  emitStateChange([m5 EXCEPT !.lmp = [x |-> clientX, y |-> clientY]])

\* handleKeyPress, were it to count the keys c, v and a without the modifier
handleKeyPressIgnoringModifier(m, key, modifier) ==
    LET m1 == resetInactivityTimer(m)
        m2 == [m1 EXCEPT !.st.lastKeyPress = now, !.st.keyboardActivity = TRUE]
        m3 == IF m2.tst = 0 THEN [m2 EXCEPT !.tst = now, !.tcc = 0] ELSE m2
        m4 == IF key \in {"v", "c", "a"}
              THEN checkAIUsageThreshold([m3 EXCEPT !.st.aiDetectionCount = @ + 1])
              ELSE m3
        m5 == IF modifier /\ key \in {"z", "y"}
              THEN addSuspiciousPattern(m4, "keyboard", "Undo/Redo operation detected")
              ELSE m4
        m6 == IF Len(key) = 1
              THEN checkTypingPatterns([m5 EXCEPT !.tcc = @ + 1])
              ELSE m5
    IN  emitStateChange(m6)

\* handleKeyPress (both revisions); modifier is event.ctrlKey || event.metaKey
handleKeyPress(m, key, modifier) ==
    LET m1 == resetInactivityTimer(m)
        m2 == [m1 EXCEPT !.st.lastKeyPress = now, !.st.keyboardActivity = TRUE]
        m3 == IF m2.tst = 0 THEN [m2 EXCEPT !.tst = now, !.tcc = 0] ELSE m2
        m4 == IF modifier /\ key \in {"v", "c", "a"}
              THEN checkAIUsageThreshold([m3 EXCEPT !.st.aiDetectionCount = @ + 1])
              ELSE m3
        m5 == IF modifier /\ key \in {"z", "y"}
              THEN addSuspiciousPattern(m4, "keyboard", "Undo/Redo operation detected")
              ELSE m4
        m6 == IF Len(key) = 1
              THEN checkTypingPatterns([m5 EXCEPT !.tcc = @ + 1])
              ELSE m5
    IN  emitStateChange(m6)

\* handlePaste of the first revision, were it to evict with shift()
handlePasteFirstEvictingNewest(m, pastedText) ==
    IF pastedText # ""
    THEN LET m1 == [m EXCEPT !.st.clipboardHistory = <<pastedText>> \o @]
             m2 == IF Len(m1.st.clipboardHistory) > options.clipboardHistorySize
                   THEN [m1 EXCEPT !.st.clipboardHistory = Tail(@)]
                   ELSE m1
         IN  checkForSuspiciousPatternsFirst(checkForAIUsageFirst(m2, pastedText),
                                             pastedText)
    ELSE m

\* handlePaste, first revision
handlePasteFirst(m, pastedText) ==
    IF pastedText # ""
    THEN LET m1 == [m EXCEPT !.st.clipboardHistory = <<pastedText>> \o @]
             m2 == IF Len(m1.st.clipboardHistory) > options.clipboardHistorySize
                   THEN [m1 EXCEPT !.st.clipboardHistory = SubSeq(@, 1, Len(@) - 1)]
                   ELSE m1
         IN  checkForSuspiciousPatternsFirst(checkForAIUsageFirst(m2, pastedText),
                                             pastedText)
    ELSE m

\* the entry pushed on clipboardHistory (second revision)
historyEntry(content, type, target) ==
    [content |-> content, timestamp |-> now, type |-> type,
     source |-> sourceOf[target], url |-> Href,
     context |-> clipboardContext(target)]

\* the payload of a clipboardOperation event
operationPayload(content, type, target) ==
    [type |-> type, content |-> content,
     source |-> sourceOf[target],
     context |-> clipboardContext(target)]

\* the recording part, were every operation counted as a web one
recordOperationCountingWeb(m, content, type, target) ==
    [m EXCEPT !.st.clipboardHistory =
                  Append(@, historyEntry(content, type, target)),
              !.st.lastClipboardOperation = now,
              !.st.clipboardOperationCount = @ + 1,
              !.st.webClipboardCount = @ + 1]

\* the recording part shared by handlePaste and handleCopy (second revision)
recordOperation(m, content, type, target) ==
    LET source == sourceOf[target]
        m1 == [m EXCEPT !.st.clipboardHistory =
                            Append(@, historyEntry(content, type, target)),
                        !.st.lastClipboardOperation = now,
                        !.st.clipboardOperationCount = @ + 1]
    IN  IF source = "web"
        THEN [m1 EXCEPT !.st.webClipboardCount = @ + 1]
        ELSE m1

\* handlePaste, second revision (target.tagName throws on a null target)
handlePasteSecond(m, pastedText, target) ==
    IF pastedText # ""
    THEN IF target.isNull
         THEN [m EXCEPT !.thrown = TRUE]
         ELSE LET m1 == recordOperation(m, pastedText, "paste", target)
                  m2 == checkForAIUsageSecond(m1, pastedText)
                  m3 == IF m2.ret
                        THEN addSuspiciousPatternSecond(
                                 [m2 EXCEPT !.st.hasAIUsage = TRUE], "ai",
                                 "Potential AI-generated content detected in pasted text")
                        ELSE m2
                  m4 == emit(m3, "clipboardOperation",
                             operationPayload(pastedText, "paste", target))
              IN  emitStateChange(m4)
    ELSE emitStateChange(m)

\* handleCopy, second revision
handleCopy(m, selectedText, target) ==
    IF selectedText # ""
    THEN IF target.isNull
         THEN [m EXCEPT !.thrown = TRUE]
         ELSE LET m1 == recordOperation(m, selectedText, "copy", target)
                  m2 == emit(m1, "clipboardOperation",
                             operationPayload(selectedText, "copy", target))
              IN  emitStateChange(m2)
    ELSE emitStateChange(m)

\* the then-callback of the clipboard poll (startAIUsageDetection)
pollCallback(m, text) ==
    IF text # ""
    THEN IF rev = "first" THEN checkForAIUsageFirst(m, text)
         ELSE checkForAIUsageSecond(m, text)
    ELSE m

\* a tick of the poll, were a rejected read to flag the session
pollTickFlaggingRejection(m, result) ==
    IF result = "rejected"
    THEN emitStateChange([m EXCEPT !.st.hasSuspiciousActivity = TRUE])
    ELSE pollCallback(m, result)

\* a tick of the poll: readText() resolves with a text, or is rejected and
\* the catch-callback does nothing
pollTick(m, result) ==
    IF result = "rejected" THEN m ELSE pollCallback(m, result)

\* resetState of the first revision, were it to return without the emit
resetStateWithoutEmit(m) ==
    [m EXCEPT !.st = initialStateFirst(now) @@ m.st,
              !.mmc = 0, !.tst = 0, !.tcc = 0]

\* resetState assigns a new state object, first revision
resetStateFirst(m) ==
    emitStateChange(
        [m EXCEPT !.st =
                     [isTabActive |-> TRUE, hasAIUsage |-> FALSE,
                      hasTabSwitch |-> FALSE, lastActiveTime |-> now,
                      tabSwitchCount |-> 0, aiDetectionCount |-> 0,
                      hasMultipleScreens |-> FALSE, hasScreenFocus |-> TRUE,
                      hasSuspiciousActivity |-> FALSE,
                      mousePosition |-> [x |-> 0, y |-> 0],
                      keyboardActivity |-> FALSE, lastMouseMove |-> now,
                      lastKeyPress |-> now, typingSpeed |-> ZeroSpeed,
                      rapidTypingCount |-> 0, clipboardHistory |-> <<>>,
                      suspiciousPatterns |-> <<>>],
                  !.mmc = 0, !.tst = 0, !.tcc = 0])

\* a faulty resetState that keeps the flag hasSuspiciousActivity (C5 must fail
\* against it)
resetStateKeepingFlag(m) ==
    emitStateChange(
        [m EXCEPT !.st = [initialStateSecond(now) EXCEPT
                             !.hasSuspiciousActivity = m.st.hasSuspiciousActivity],
                  !.mmc = 0, !.tst = 0, !.tcc = 0])

\* resetState, second revision
resetStateSecond(m) ==
    emitStateChange(
        [m EXCEPT !.st =
                     [isTabActive |-> TRUE, hasAIUsage |-> FALSE,
                      hasTabSwitch |-> FALSE, lastActiveTime |-> now,
                      tabSwitchCount |-> 0, aiDetectionCount |-> 0,
                      hasMultipleScreens |-> FALSE, hasScreenFocus |-> TRUE,
                      hasSuspiciousActivity |-> FALSE,
                      mousePosition |-> [x |-> 0, y |-> 0],
                      keyboardActivity |-> TRUE, lastMouseMove |-> now,
                      lastKeyPress |-> now, typingSpeed |-> ZeroSpeed,
                      rapidTypingCount |-> 0, clipboardHistory |-> <<>>,
                      suspiciousPatterns |-> <<>>,
                      screenInactiveCount |-> 0, lastClipboardOperation |-> now,
                      clipboardOperationCount |-> 0, webClipboardCount |-> 0],
                  !.mmc = 0, !.tst = 0, !.tcc = 0])

\* the two clearTimeout calls of cleanup (both revisions)
cleanupTimers(m) ==
    LET m1 == IF m.it # 0 THEN clearTimeout(m, m.it) ELSE m
    IN  IF m1.sft # 0 THEN clearTimeout(m1, m1.sft) ELSE m1

\* the removeEventListener calls of cleanup, first revision
cleanupListenersFirst(ls) ==
    LET l1 == removeEventListener(ls, "visibilitychange",
                                  Bound("handleVisibilityChange", "cleanup"))
        l2 == removeEventListener(l1, "paste", Bound("handlePaste", "cleanup"))
        l3 == removeEventListener(l2, "keydown", Bound("handleKeyPress", "cleanup"))
        l4 == removeEventListener(l3, "mousemove", Bound("handleMouseMove", "cleanup"))
        l5 == removeEventListener(l4, "focus", Bound("handleScreenFocus", "cleanup"))
    IN  removeEventListener(l5, "blur", Bound("handleScreenBlur", "cleanup"))

\* stopClipboardMonitoring (second revision)
stopClipboardMonitoring(ls) ==
    removeEventListener(removeEventListener(ls, "paste", Property("handlePaste")),
                        "copy", Property("handleCopy"))

\* the removeEventListener calls of cleanup, second revision
cleanupListenersSecond(ls) ==
    LET l1 == removeEventListener(ls, "visibilitychange",
                                  Bound("handleVisibilityChange", "cleanup"))
        l2 == stopClipboardMonitoring(l1)
        l3 == removeEventListener(l2, "keydown", Bound("handleKeyPress", "cleanup"))
        l4 == removeEventListener(l3, "mousemove", Bound("handleMouseMove", "cleanup"))
        l5 == removeEventListener(l4, "focus", Bound("handleScreenFocus", "cleanup"))
    IN  removeEventListener(l5, "blur", Bound("handleScreenBlur", "cleanup"))

(***************************************************************************)
(* Actions: one per DOM event, timer, poll tick and public method.         *)
(***************************************************************************)
CountOf(tm, kind) == Cardinality({t \in tm : t.kind = kind})

Ready == rev \in {"first", "second"} /\ probe = "done"

Run(m) == Commit(m)

\* the continuation of checkMultipleScreens after its await
CheckMultipleScreens(multiple) ==
    /\ rev \in {"first", "second"} /\ probe = "pending"
    /\ probe' = "done"
    /\ Run(emitStateChange([Cur EXCEPT !.st.hasMultipleScreens = multiple]))
    /\ UNCHANGED <<rev, now, options, pollInterval, listeners, documentVisible>>

\* the document changes visibility and dispatches visibilitychange
OnVisibilityChange ==
    /\ Ready /\ Listens("visibilitychange")
    /\ documentVisible' = ~documentVisible
    /\ Run(IF rev = "first"
           THEN handleVisibilityChangeFirst(Cur, documentVisible')
           ELSE handleVisibilityChangeSecond(Cur, documentVisible'))
    /\ UNCHANGED <<rev, now, options, pollInterval, listeners, probe>>

OnFocus ==
    /\ Ready /\ Listens("focus")
    /\ Run(handleScreenFocus(Cur))
    /\ UNCHANGED <<rev, now, options, pollInterval, listeners, documentVisible, probe>>

OnBlur ==
    /\ Ready /\ Listens("blur")
    /\ Run(IF rev = "first" THEN handleScreenBlurFirst(Cur)
           ELSE handleScreenBlurSecond(Cur))
    /\ UNCHANGED <<rev, now, options, pollInterval, listeners, documentVisible, probe>>

OnMouseMove(clientX, clientY) ==
    /\ Ready /\ Listens("mousemove")
    /\ \E d \in Drift : Run(handleMouseMove(CurAt(d), clientX, clientY))
    /\ UNCHANGED <<rev, now, options, pollInterval, listeners, documentVisible, probe>>

OnKeyDown(key, modifier) ==
    /\ Ready /\ Listens("keydown")
    /\ \E d \in Drift : Run(handleKeyPress(CurAt(d), key, modifier))
    /\ UNCHANGED <<rev, now, options, pollInterval, listeners, documentVisible, probe>>

OnPaste(text, target) ==
    /\ Ready /\ Listens("paste")
    /\ \E d \in Drift :
          Run(IF rev = "first" THEN handlePasteFirst(CurAt(d), text)
              ELSE handlePasteSecond(CurAt(d), text, target))
    /\ UNCHANGED <<rev, now, options, pollInterval, listeners, documentVisible, probe>>

OnCopy(text, target) ==
    /\ Ready /\ Listens("copy")
    /\ Run(handleCopy(Cur, text, target))
    /\ UNCHANGED <<rev, now, options, pollInterval, listeners, documentVisible, probe>>

\* a pending timer whose delay has elapsed runs its callback
TimerFires(kind) ==
    /\ Ready
    /\ \E t \in timers :
          /\ t.kind = kind /\ t.due <= now
          /\ Run(timerCallback([Cur EXCEPT !.tm = @ \ {t}]))
    /\ UNCHANGED <<rev, now, options, pollInterval, listeners, documentVisible, probe>>

InactivityTimeout == TimerFires("inactivity")
ScreenFocusTimeout == TimerFires("screenFocus")

\* a tick of the 5000 ms interval; result is the text read, or "rejected"
ClipboardPoll(result) ==
    /\ Ready /\ pollInterval.active /\ pollInterval.due <= now
    /\ pollInterval' = [pollInterval EXCEPT !.due = @ + 5000]
    /\ \E d \in Drift :
          Run(pollTick(CurAt(d), result))
    /\ UNCHANGED <<rev, now, options, listeners, documentVisible, probe>>

ResetState ==
    /\ Ready
    /\ Run(IF rev = "first" THEN resetStateFirst(Cur) ELSE resetStateSecond(Cur))
    /\ UNCHANGED <<rev, now, options, pollInterval, listeners, documentVisible, probe>>

\* setOptions, were it to spread the partial over the defaults
mergeOptionsOntoDefaults(old, partial) ==
    [k \in DOMAIN defaultOptions \cup DOMAIN partial |->
        IF k \in DOMAIN partial THEN partial[k] ELSE defaultOptions[k]]

\* this.options = { ...this.options, ...options }
mergeOptions(old, partial) ==
    [k \in DOMAIN old \cup DOMAIN partial |->
        IF k \in DOMAIN partial THEN partial[k] ELSE old[k]]

SetOptions(partial) ==
    /\ Ready
    /\ options' = mergeOptions(options, partial)
    /\ emitted' = <<>> /\ thrown' = FALSE
    /\ UNCHANGED <<manager, hook>>
    /\ UNCHANGED <<rev, now, state, timers, inactivityTimer, screenFocusTimer,
                   pollInterval, listeners, lastMousePosition, mouseMovementCount,
                   typingStartTime, typingCharacterCount, documentVisible, probe>>

Cleanup ==
    /\ Ready
    /\ listeners' = IF rev = "first" THEN cleanupListenersFirst(listeners)
                    ELSE cleanupListenersSecond(listeners)
    /\ Run(cleanupTimers(Cur))
    /\ UNCHANGED <<rev, now, options, pollInterval, documentVisible, probe>>

\* Date.now() advances by d ms.  A setTimeout callback runs when its delay has
\* elapsed: the clock does not pass the due time of a pending timer.
AdvanceTime(d) ==
    /\ \A t \in timers : t.due >= now + d
    /\ now' = now + d
    /\ emitted' = <<>> /\ thrown' = FALSE
    /\ UNCHANGED <<manager, hook>>
    /\ UNCHANGED <<rev, state, options, timers, inactivityTimer, screenFocusTimer,
                   pollInterval, listeners, lastMousePosition, mouseMovementCount,
                   typingStartTime, typingCharacterCount, documentVisible, probe>>

(***************************************************************************)
(* src/unnamed/part_001: the listeners of setupEventListeners.             *)
(***************************************************************************)
\* this.listeners.forEach((listener) => listener(this.state))
notifyListeners(st) == <<[topic |-> "listener", payload |-> st]>>

BasicStep(st) ==
    /\ state' = st
    /\ emitted' = notifyListeners(st)
    /\ thrown' = FALSE
    /\ UNCHANGED <<manager, hook>>
    /\ UNCHANGED <<rev, now, options, timers, inactivityTimer, screenFocusTimer,
                   pollInterval, listeners, lastMousePosition, mouseMovementCount,
                   typingStartTime, typingCharacterCount, probe>>

BasicVisibilityChange ==
    /\ rev = "basic"
    /\ documentVisible' = ~documentVisible
    /\ BasicStep([state EXCEPT !.isTabActive = documentVisible'])

\* hasData: event.clipboardData is not null
BasicPaste(text, hasData) ==
    /\ rev = "basic"
    /\ UNCHANGED documentVisible
    /\ IF hasData
       THEN BasicStep([state EXCEPT !.hasAIUsage = detectAIPatterns[text]])
       ELSE /\ emitted' = <<>> /\ thrown' = FALSE
            /\ UNCHANGED <<manager, hook>>
            /\ UNCHANGED <<rev, now, state, options, timers, inactivityTimer,
                           screenFocusTimer, pollInterval, listeners,
                           lastMousePosition, mouseMovementCount, typingStartTime,
                           typingCharacterCount, probe>>

BasicKeyDown ==
    /\ rev = "basic"
    /\ UNCHANGED documentVisible
    /\ BasicStep([state EXCEPT !.lastActivity = now])

(***************************************************************************)
(* ScreenshotManager (utils/screenshots.ts).  An async method runs to its  *)
(* next await in one step.  A call in flight is a record                   *)
(* [id, op, at, req]:                                                      *)
(*   op  : the method called ("start", "initialize", "capture", "manual")  *)
(*         or "tick", the callback of the auto-capture interval            *)
(*   at  : the await it rests at: "initialize" (await this.initialize() in *)
(*         the method itself), "captureInit" (the one in                   *)
(*         captureScreenshots) or "save" (await this.saveToStorage)        *)
(*   req : the getDisplayMedia request it awaits, 0 if initialize()        *)
(*         returned at once                                                *)
(* The awaits of one initialize() (the stream, then loadedmetadata) are    *)
(* one step, as are the saves of one captureScreenshots(): the manager's   *)
(* fields are not written between them.  A screen is keyed by the request  *)
(* that opened it (displayId is screen_<Date.now()>, taken as distinct).   *)
(***************************************************************************)
detectorVars ==
    <<rev, now, state, options, timers, inactivityTimer, screenFocusTimer,
      pollInterval, listeners, lastMousePosition, mouseMovementCount,
      typingStartTime, typingCharacterCount, documentVisible, probe, emitted,
      thrown>>

\* the fields as declared (lines 28-38), no interval and no call running;
\* requests and registered count the getDisplayMedia requests and the
\* screens.set of initialize() since the last cleanup(); stopped and pending
\* record that stopAutoCapture() ran after the last startAutoCapture() call,
\* and which startAutoCapture() calls in flight at that moment still run
initialManager ==
    [screenshotInterval |-> 0, isCapturing |-> FALSE, isInitialized |-> FALSE,
     screens |-> {}, intervals |-> {}, calls |-> {},
     requests |-> 0, registered |-> 0, stopped |-> FALSE, pending |-> {}]

\* the smallest positive id not in use
FreeId(used) ==
    CHOOSE i \in 1..(Cardinality(used) + 1) :
        i \notin used /\ \A j \in 1..(i - 1) : j \in used

CallId(mg) == FreeId({c.id : c \in mg.calls})

\* stopAutoCapture()
stopAutoCapture(mg) ==
    [mg EXCEPT !.isCapturing = FALSE,
               !.intervals = @ \ {mg.screenshotInterval},
               !.screenshotInterval = 0,
               !.stopped = TRUE,
               !.pending = {c.id : c \in {d \in mg.calls : d.op = "start"}}]

\* cleanup()
cleanupManager(mg) ==
    [stopAutoCapture(mg) EXCEPT !.screens = {}, !.isInitialized = FALSE,
                                !.requests = 0, !.registered = 0]

\* !this.isInitialized || this.screens.size === 0
needsInitialize(mg) == ~mg.isInitialized \/ mg.screens = {}

\* await this.initialize(): returns at once when initialized, else requests
\* a display stream
callInitialize(mg, id, op, at) ==
    IF mg.isInitialized
    THEN [mg EXCEPT !.calls = @ \cup {[id |-> id, op |-> op, at |-> at, req |-> 0]}]
    ELSE LET r == FreeId(mg.screens \cup {c.req : c \in mg.calls})
         IN  [mg EXCEPT !.calls = @ \cup {[id |-> id, op |-> op, at |-> at, req |-> r]},
                        !.requests = @ + 1]

\* the call ends: its promise settles
callEnds(mg, c) == [mg EXCEPT !.pending = @ \ {c.id}]

\* await this.captureScreenshots() has returned to the method op
captureReturns(mg, c) ==
    IF c.op = "start"
    THEN LET i == FreeId(mg.intervals)
         IN  callEnds([mg EXCEPT !.screenshotInterval = i,
                                 !.intervals = @ \cup {i}], c)
    ELSE callEnds(mg, c)

\* captureScreenshots() up to its first await
enterCapture(mg, id, op) ==
    IF needsInitialize(mg)
    THEN callInitialize(mg, id, op, "captureInit")
    ELSE [mg EXCEPT !.calls = @ \cup {[id |-> id, op |-> op, at |-> "save", req |-> 0]}]

\* startAutoCapture() up to its first await
startAutoCapture(mg) ==
    LET mg1 == [mg EXCEPT !.stopped = FALSE, !.pending = {}]
        id == CallId(mg)
    IN  IF mg.screenshotInterval # 0 THEN mg1
        ELSE IF needsInitialize(mg)
             THEN callInitialize(mg1, id, "start", "initialize")
             ELSE enterCapture([mg1 EXCEPT !.isCapturing = TRUE], id, "start")

\* takeManualScreenshot() up to its first await
takeManualScreenshot(mg) ==
    IF needsInitialize(mg)
    THEN callInitialize(mg, CallId(mg), "manual", "initialize")
    ELSE enterCapture(mg, CallId(mg), "manual")

\* the initialize() awaited by call c settles: the screen is registered, or
\* the catch block runs cleanup() and rethrows
initializeSettles(mg, c, granted) ==
    LET mg0 == [mg EXCEPT !.calls = @ \ {c}]
        ok  == IF c.req = 0 THEN mg0
               ELSE [mg0 EXCEPT !.screens = @ \cup {c.req},
                                !.isInitialized = TRUE,
                                !.registered = @ + 1]
        ko  == cleanupManager(mg0)
    IN  IF granted
        THEN IF c.at = "captureInit"
             THEN IF ok.screens = {} THEN captureReturns(ok, c)
                  ELSE [ok EXCEPT !.calls = @ \cup {[c EXCEPT !.at = "save", !.req = 0]}]
             ELSE CASE c.op = "start" ->
                          enterCapture([ok EXCEPT !.isCapturing = TRUE], c.id, "start")
                    [] c.op = "manual" -> enterCapture(ok, c.id, "manual")
                    [] OTHER -> callEnds(ok, c)
        ELSE IF c.at = "captureInit" THEN captureReturns(ko, c)
             ELSE callEnds(ko, c)

\* the callback of the interval
intervalCallback(mg) ==
    IF ~mg.isCapturing THEN stopAutoCapture(mg)
    ELSE enterCapture(mg, CallId(mg), "tick")

ManagerStep(mg) ==
    /\ manager' = mg
    /\ UNCHANGED detectorVars
    /\ UNCHANGED hook

StartAutoCapture == ManagerStep(startAutoCapture(manager))

StopAutoCapture == ManagerStep(stopAutoCapture(manager))

Initialize ==
    ManagerStep(callInitialize(manager, CallId(manager), "initialize", "initialize"))

CaptureScreenshots == ManagerStep(enterCapture(manager, CallId(manager), "capture"))

TakeManualScreenshot == ManagerStep(takeManualScreenshot(manager))

ManagerCleanup == ManagerStep(cleanupManager(manager))

\* the user answers the screen picker of call c, or initialize() had
\* returned at once
InitializeSettles(c, granted) ==
    /\ c \in manager.calls /\ c.at \in {"initialize", "captureInit"}
    /\ c.req = 0 => granted
    /\ ManagerStep(initializeSettles(manager, c, granted))

\* the IndexedDB request of call c completes
SaveSettles(c) ==
    /\ c \in manager.calls /\ c.at = "save"
    /\ ManagerStep(captureReturns([manager EXCEPT !.calls = @ \ {c}], c))

\* the interval i fires
IntervalTick(i) ==
    /\ i \in manager.intervals
    /\ ManagerStep(intervalCallback(manager))

(***************************************************************************)
(* requestPermission of useScreenCapture ("screen") and of useCamera       *)
(* ("camera").  A state setter is an assignment.  inFlight holds the       *)
(* getDisplayMedia / getUserMedia requests awaited; issued and refused     *)
(* count the requests issued and the calls that returned at the guard.     *)
(***************************************************************************)
initialHook(kind) ==
    [kind |-> kind, isRequestingPermission |-> FALSE, streamRef |-> 0,
     stream |-> 0, permissionStatus |-> "prompt", isActive |-> FALSE,
     inFlight |-> {}, issued |-> 0, refused |-> 0]

\* handleStreamEnd of useScreenCapture
handleStreamEnd(h) ==
    [h EXCEPT !.streamRef = 0, !.stream = 0, !.permissionStatus = "denied",
              !.isActive = FALSE]

\* requestPermission() with no guard on the flag
requestPermissionUnguarded(h, supported) ==
    LET r == FreeId(h.inFlight \cup {h.stream, h.streamRef})
    IN  IF h.kind = "screen"
        THEN LET h1 == [h EXCEPT !.isRequestingPermission = TRUE, !.streamRef = 0]
             IN  IF ~supported
                 THEN [handleStreamEnd(h1) EXCEPT !.isRequestingPermission = FALSE]
                 ELSE [h1 EXCEPT !.inFlight = @ \cup {r}, !.issued = @ + 1]
        ELSE [h EXCEPT !.isRequestingPermission = TRUE,
                       !.inFlight = @ \cup {r}, !.issued = @ + 1]

\* requestPermission() up to its await; supported: getDisplayMedia exists
requestPermission(h, supported) ==
    IF h.isRequestingPermission
    THEN [h EXCEPT !.refused = @ + 1]
    ELSE LET r == FreeId(h.inFlight \cup {h.stream, h.streamRef})
         IN  IF h.kind = "screen"
             THEN LET h1 == [h EXCEPT !.isRequestingPermission = TRUE,
                                      !.streamRef = 0]
                  IN  IF ~supported
                      THEN [handleStreamEnd(h1) EXCEPT !.isRequestingPermission = FALSE]
                      ELSE [h1 EXCEPT !.inFlight = @ \cup {r}, !.issued = @ + 1]
             ELSE [h EXCEPT !.isRequestingPermission = TRUE,
                            !.inFlight = @ \cup {r}, !.issued = @ + 1]

\* the request r settles: the rest of try, or catch, then finally
permissionSettles(h, r, granted) ==
    LET h0 == [h EXCEPT !.inFlight = @ \ {r}, !.isRequestingPermission = FALSE]
    IN  IF granted
        THEN [h0 EXCEPT !.streamRef = r, !.stream = r,
                        !.permissionStatus = "granted", !.isActive = TRUE]
        ELSE IF h.kind = "screen" THEN handleStreamEnd(h0)
             ELSE [h0 EXCEPT !.permissionStatus = "denied"]

\* the video track of the stream ends (the user stops sharing)
trackEnded(h) ==
    IF h.kind = "screen" THEN handleStreamEnd(h)
    ELSE [h EXCEPT !.isActive = FALSE, !.stream = 0, !.streamRef = 0]

HookStep(h) ==
    /\ hook' = h
    /\ UNCHANGED detectorVars
    /\ UNCHANGED manager

RequestPermission(supported) ==
    /\ hook.kind = "camera" => supported
    /\ HookStep(requestPermission(hook, supported))

PermissionSettles(r, granted) ==
    /\ r \in hook.inFlight
    /\ HookStep(permissionSettles(hook, r, granted))

TrackEnded ==
    /\ hook.streamRef # 0
    /\ HookStep(trackEnded(hook))

(***************************************************************************)
(* Initial state: the manager as its constructor leaves it.                *)
(***************************************************************************)
InitDetector(r) ==
    /\ rev = r
    /\ now = 1000
    /\ state = (CASE r = "first" -> initialStateFirst(now)
                  [] r = "second" -> initialStateSecond(now)
                  [] r = "basic" -> initialStateBasic(now))
    /\ options = defaultOptions
    /\ timers = {}
    /\ inactivityTimer = 0
    /\ screenFocusTimer = 0
    /\ pollInterval = [active |-> (r # "basic"), due |-> now + 5000]
    /\ listeners = (CASE r = "first" -> initializeDetectionsFirst
                      [] r = "second" -> initializeDetectionsSecond
                      [] r = "basic" -> setupEventListeners)
    /\ lastMousePosition = [x |-> 0, y |-> 0]
    /\ mouseMovementCount = 0
    /\ typingStartTime = 0
    /\ typingCharacterCount = 0
    /\ documentVisible = TRUE
    /\ probe = IF r = "basic" THEN "done" ELSE "pending"
    /\ emitted = <<>>
    /\ thrown = FALSE

\* the detector with the screenshot manager and a hook not yet used
InitOf(r) ==
    /\ InitDetector(r)
    /\ manager = initialManager
    /\ hook = initialHook("screen")

(***************************************************************************)
(* getState() and the shape of a new or reset state.                       *)
(***************************************************************************)
\* getState(): return { ...this.state }
getState == [k \in DOMAIN state |-> state[k]]

\* the fields that hold new Date()
dateFields == {"lastActiveTime", "lastMouseMove", "lastKeyPress",
               "lastClipboardOperation"}

\* st is a state as the constructor or resetState() leaves it, the dates and
\* the result of the multi-screen probe apart
FreshState(st) ==
    LET init == IF rev = "first" THEN initialStateFirst(0) ELSE initialStateSecond(0)
    IN  \A k \in DOMAIN init \ (dateFields \cup {"hasMultipleScreens"}) :
            st[k] = init[k]

Fresh ==
    /\ rev \in {"first", "second"}
    /\ FreshState(state)
    /\ mouseMovementCount = 0 /\ typingStartTime = 0 /\ typingCharacterCount = 0

(***************************************************************************)
(* SpecClipboard: clipboard sessions.  The options are set before the      *)
(* first clipboard operation of a session and kept during it.  A clipboard *)
(* event comes from an input, from a div, or with a null target.           *)
(***************************************************************************)
ClipMaxOps == 3      \* clipboard operations recorded in a session
ClipMaxTicks == 1    \* advances of the clock, 5000 ms each

ClipboardLimit ==
    /\ Len(state.clipboardHistory) <= ClipMaxOps
    /\ state.aiDetectionCount <= ClipMaxOps
    /\ now <= 1000 + ClipMaxTicks * 5000

ClipTexts == {"", "hello", "chatgpt", "const x = 1; return x;"}
ClipTargets == {InputEl, DivEl, NullTarget}

InitClipboard == \E r \in {"first", "second"} : InitOf(r)

NextClipboard ==
    \/ \E multiple \in BOOLEAN : CheckMultipleScreens(multiple)
    \/ \E size \in {1, 2} :
          /\ state.clipboardHistory = <<>>
          /\ SetOptions([clipboardHistorySize |-> size])
    \/ \E text \in ClipTexts, target \in ClipTargets :
          OnPaste(text, target) /\ ClipboardLimit'
    \/ \E target \in ClipTargets : OnCopy("hello", target) /\ ClipboardLimit'
    \/ ResetState
    \/ AdvanceTime(5000) /\ ClipboardLimit'

SpecClipboard == InitClipboard /\ [][NextClipboard]_vars

\* C1: for every sequence of paste events under an unchanged
\* clipboardHistorySize, in every revision, clipboardHistory.length never
\* exceeds the configured clipboardHistorySize.
C1_HistoryBounded ==
    Len(state.clipboardHistory) <= options.clipboardHistorySize

\* C2: with aiDetectionThreshold = 1, on a freshly constructed or freshly reset
\* detector, one paste whose text contains "chatgpt" leaves hasAIUsage = true.
C2_ChatgptPasteFlagsAI ==
    [][(/\ Fresh
        /\ options.aiDetectionThreshold = 1
        /\ \E target \in ClipTargets : OnPaste("chatgpt", target))
       => state'.hasAIUsage]_vars

\* C3: with patternDetectionThreshold = 2, a single paste whose text matches two
\* distinct patterns of the suspicious-content catalog sets
\* hasSuspiciousActivity = true, in every revision.
C3_TwoCodePatternsFlagSuspicious ==
    [][(/\ options.patternDetectionThreshold = 2
        /\ \E text \in ClipTexts, target \in ClipTargets :
              /\ Len(filterSuspicious[text]) >= 2
              /\ filterSuspicious[text][1] # filterSuspicious[text][2]
              /\ OnPaste(text, target))
       => state'.hasSuspiciousActivity]_vars

(***************************************************************************)
(* SpecPatterns: the sources of suspiciousPatterns entries (mouse moves,   *)
(* key presses, pastes, the clipboard poll) around the 5000 ms window of   *)
(* addSuspiciousPattern: the clock advances once, by just under, exactly   *)
(* or just over 5000 ms.                                                   *)
(***************************************************************************)
PatMaxPatterns == 2   \* entries of suspiciousPatterns
PatMaxCount == 1      \* each counter, and the clipboard history
PatMaxSpan == 5001    \* ms from construction

PatternsLimit ==
    /\ Len(state.suspiciousPatterns) <= PatMaxPatterns
    /\ Len(state.clipboardHistory) <= PatMaxCount
    /\ state.aiDetectionCount <= PatMaxCount
    /\ state.rapidTypingCount <= PatMaxCount
    /\ mouseMovementCount <= PatMaxCount
    /\ typingCharacterCount <= PatMaxCount
    /\ now <= 1000 + PatMaxSpan

Points == {<<0, 0>>, <<700, 0>>, <<710, 20>>}
PatKeys == {<<"z", TRUE>>, <<"a", FALSE>>}
PatTexts == {"chatgpt", "const x = 1; return x;"}
PatDeltas == {4999, 5000, 5001}

InitPatterns == \E r \in {"first", "second"} : InitOf(r)

NextPatterns ==
    \/ \E multiple \in BOOLEAN : CheckMultipleScreens(multiple)
    \/ \E p \in Points : OnMouseMove(p[1], p[2]) /\ PatternsLimit'
    \/ \E k \in PatKeys : OnKeyDown(k[1], k[2]) /\ PatternsLimit'
    \/ \E text \in PatTexts : OnPaste(text, InputEl) /\ PatternsLimit'
    \/ \E result \in {"chatgpt", "rejected"} : ClipboardPoll(result) /\ PatternsLimit'
    \/ ResetState
    \/ \E d \in PatDeltas : AdvanceTime(d) /\ PatternsLimit'

SpecPatterns == InitPatterns /\ [][NextPatterns]_vars

\* C4: no two entries of suspiciousPatterns with the same type and the same
\* message have timestamps closer than 5000 ms apart.
C4_NoDuplicateWithin5000 ==
    \A i, j \in DOMAIN state.suspiciousPatterns :
        LET p == state.suspiciousPatterns[i]
            q == state.suspiciousPatterns[j]
        IN  (i < j /\ p.type = q.type /\ p.message = q.message)
                => Abs(q.timestamp - p.timestamp) >= 5000

(***************************************************************************)
(* SpecSession: a monitored session in each of the three revisions: tab    *)
(* switches, blur and focus with the screen-focus timer, mouse, keyboard,  *)
(* clipboard and resetState().                                             *)
(***************************************************************************)
SesMaxActivity == 4   \* what a session may accumulate, see Activity

\* a counter of the state; the first revision lacks the clipboard counters
Counter(st, k) == IF k \in DOMAIN st THEN st[k] ELSE 0

\* the size of a session: the advances of the clock (2000 ms each), the
\* pending timers, the counters and the lengths of the collections
Activity ==
    (now - 1000) \div 2000
    + Cardinality(timers)
    + (IF rev = "basic" THEN 0
       ELSE Counter(state, "tabSwitchCount") + Counter(state, "aiDetectionCount")
            + Counter(state, "rapidTypingCount")
            + Counter(state, "screenInactiveCount")
            + Len(state.clipboardHistory) + Len(state.suspiciousPatterns)
            + mouseMovementCount + typingCharacterCount)

SessionLimit == Activity <= SesMaxActivity

SesKeys == {<<"v", TRUE>>, <<"a", FALSE>>}
SesTexts == {"hello", "chatgpt"}
BasicTexts == {"hello", "Generated by AI"}

InitSession == \E r \in Revisions : InitOf(r)

NextSession ==
    \/ \E multiple \in BOOLEAN : CheckMultipleScreens(multiple)
    \/ OnVisibilityChange /\ SessionLimit'
    \/ OnBlur /\ SessionLimit'
    \/ OnFocus
    \/ ScreenFocusTimeout
    \/ OnMouseMove(700, 0) /\ SessionLimit'
    \/ \E k \in SesKeys : OnKeyDown(k[1], k[2]) /\ SessionLimit'
    \/ \E text \in SesTexts : OnPaste(text, InputEl) /\ SessionLimit'
    \/ OnCopy("hello", DivEl) /\ SessionLimit'
    \/ ResetState
    \/ AdvanceTime(2000) /\ SessionLimit'
    \/ BasicVisibilityChange
    \/ \E text \in BasicTexts, hasData \in BOOLEAN : BasicPaste(text, hasData)
    \/ BasicKeyDown

SpecSession == InitSession /\ [][NextSession]_vars

\* what C5 lists of a state s
ResetSnapshot(s) ==
    /\ \A k \in {"tabSwitchCount", "aiDetectionCount", "rapidTypingCount",
                  "screenInactiveCount", "clipboardOperationCount",
                  "webClipboardCount"} : Counter(s, k) = 0
    /\ ~s.hasAIUsage /\ ~s.hasSuspiciousActivity
    /\ ~s.hasMultipleScreens /\ ~s.hasTabSwitch
    /\ s.isTabActive /\ s.hasScreenFocus
    /\ s.typingSpeed = ZeroSpeed
    /\ s.clipboardHistory = <<>> /\ s.suspiciousPatterns = <<>>

\* C5: when resetState() has returned, getState() reports every counter 0,
\* hasAIUsage, hasSuspiciousActivity, hasMultipleScreens and hasTabSwitch
\* false, isTabActive and hasScreenFocus true, typingSpeed 0, clipboardHistory
\* and suspiciousPatterns empty.
C5_ResetStateRestoresDefaults ==
    [][ResetState => ResetSnapshot(getState')]_vars

\* a reset after activity: the pointer was moved (resetState keeps
\* lastMousePosition), a timer is pending and the state is as C5 lists it
C5_ResetAfterActivity ==
    /\ Ready /\ now > 1000
    /\ lastMousePosition # [x |-> 0, y |-> 0]
    /\ state.mousePosition = [x |-> 0, y |-> 0]
    /\ timers # {}
    /\ Len(emitted) = 1 /\ emitted[1].payload = state
    /\ ResetSnapshot(getState)

\* C6: hasAIUsage, hasSuspiciousActivity and hasMultipleScreens are one-way
\* latches: once true, each stays true over every step that is not resetState().
C6_FlagsLatch ==
    [][~ResetState =>
          \A f \in {"hasAIUsage", "hasSuspiciousActivity", "hasMultipleScreens"} :
              (f \in DOMAIN state /\ state[f]) => state'[f]]_vars

(***************************************************************************)
(* SpecTimers: blur, focus and pointer moves with the two timers, and      *)
(* cleanup().  The clock advances 1000 ms at a time; a timer is armed only *)
(* when its delay ends within the span explored, so the inactivity timer   *)
(* after setOptions({inactivityTimeout: 3000}).  A mousemove event reports *)
(* a pointer that has moved; resetState() is called on a flagged session.  *)
(***************************************************************************)
TimMaxTimers == 2     \* pending timers, and blurs counted by the second revision
TimMaxTicks == 4      \* advances of the clock, 1000 ms each

TimersLimit ==
    /\ now <= 1000 + TimMaxTicks * 1000
    /\ Cardinality(timers) <= TimMaxTimers
    /\ \A t \in timers : t.due <= 1000 + TimMaxTicks * 1000
    /\ Counter(state, "screenInactiveCount") <= TimMaxTimers

TimPoints == {<<5, 7>>, <<15, 27>>}
TimerIds == 1..TimMaxTimers

Tick == AdvanceTime(1000) /\ TimersLimit'

InitTimers == \E r \in {"first", "second"} : InitOf(r)

NextTimers ==
    \/ CheckMultipleScreens(FALSE)
    \/ /\ options = defaultOptions /\ timers = {}
       /\ SetOptions([inactivityTimeout |-> 3000])
    \/ OnBlur /\ TimersLimit'
    \/ OnFocus
    \/ ScreenFocusTimeout
    \/ \E p \in TimPoints :
          /\ lastMousePosition # [x |-> p[1], y |-> p[2]]
          /\ OnMouseMove(p[1], p[2]) /\ TimersLimit'
    \/ InactivityTimeout
    \/ state.hasSuspiciousActivity /\ ResetState
    \/ Cleanup
    \/ Tick

SpecTimers == InitTimers /\ [][NextTimers]_vars

\* the event loop runs a callback whose delay has elapsed, and time passes
SpecTimersFair ==
    /\ SpecTimers
    /\ WF_vars(ScreenFocusTimeout)
    /\ WF_vars(InactivityTimeout)
    /\ WF_vars(Tick)

ScreenFocusPending(id) == \E t \in timers : t.id = id /\ t.kind = "screenFocus"

\* C7: after a blur, if no focus arrives within screenFocusTimeout and
\* cleanup() is not called, the screen-focus timer fires and
\* hasSuspiciousActivity becomes true: a blur arms a timer due
\* screenFocusTimeout later, the clock does not pass a pending timer, a timer
\* goes away only in a focus step, in cleanup() or by firing with the flag
\* set, and every pending timer goes away.
C7_BlurTimerFires ==
    /\ [][OnBlur => \E t \in timers' \ timers :
                        /\ t.kind = "screenFocus"
                        /\ t.due = now + options.screenFocusTimeout]_vars
    /\ [](\A t \in timers : t.due >= now)
    /\ [][(\E t \in timers \ timers' : t.kind = "screenFocus")
            => (OnFocus \/ Cleanup \/ state'.hasSuspiciousActivity)]_vars
    /\ \A id \in TimerIds : ScreenFocusPending(id) ~> ~ScreenFocusPending(id)

\* the timer of a blur has fired with the window still unfocused; the pointer
\* never moved
C7_FiredUnfocused ==
    /\ Ready /\ now >= 1000 + options.screenFocusTimeout
    /\ ~state.hasScreenFocus /\ state.hasSuspiciousActivity
    /\ screenFocusTimer = -1 /\ inactivityTimer = 0
    /\ timers = {}
    /\ Len(emitted) = 1 /\ emitted[1].payload = state

\* C8: for every interleaving of blur and focus events, a focus before the
\* timeout of a blur cancels the pending screen-focus timer of that blur: after
\* a focus no screen-focus timer with time left is pending.
C8_FocusCancelsBlurTimers ==
    [][OnFocus => \A t \in timers' : t.kind = "screenFocus" => t.due <= now]_vars

\* C9: at most one inactivity timer and at most one screen-focus timer are
\* pending at any time.
C9_OneTimerOfEachKind ==
    /\ CountOf(timers, "inactivity") <= 1
    /\ CountOf(timers, "screenFocus") <= 1

\* C10: when cleanup() has returned, every listener added by the constructor
\* is removed and every timer (inactivity, screen-focus, the poll interval) is
\* cleared.
C10_CleanupReleasesAll ==
    [][Cleanup => (/\ listeners' = {}
                   /\ timers' = {}
                   /\ ~pollInterval'.active)]_vars

(***************************************************************************)
(* The events of a handler run (SpecSession).                              *)
(***************************************************************************)
\* the payloads of the stateChange events among the events es, in order
StateChanges(es) ==
    LET sc == SelectSeq(es, LAMBDA e : e.topic = "stateChange")
    IN  [i \in DOMAIN sc |-> sc[i].payload]

\* C11: every handler run that changes DetectionState emits a stateChange
\* event, and the last snapshot emitted equals the state as the handler
\* leaves it.
C11_ChangeEmitsFinalSnapshot ==
    [][(rev # "basic" /\ state' # state)
          => LET snaps == StateChanges(emitted')
             IN  /\ Len(snaps) > 0
                 /\ snaps[Len(snaps)] = state']_vars

\* the events es hold exactly one clipboardOperation, for this operation, and
\* end with a stateChange
OneOperation(es, type, content) ==
    LET ops == SelectSeq(es, LAMBDA e : e.topic = "clipboardOperation")
    IN  /\ Len(ops) = 1
        /\ DOMAIN ops[1].payload = {"type", "content", "source", "context"}
        /\ ops[1].payload.type = type
        /\ ops[1].payload.content = content
        /\ es[Len(es)].topic = "stateChange"

\* C12: each copy event and each paste event emits exactly one
\* clipboardOperation event carrying {type, content, source, context} for that
\* operation, before the stateChange that closes the handler.
C12_OneClipboardOperation ==
    [][\A text \in ClipTexts, target \in ClipTargets :
          /\ OnPaste(text, target) => OneOperation(emitted', "paste", text)
          /\ OnCopy(text, target) => OneOperation(emitted', "copy", text)]_vars

(* The counters of a session (SpecSession). *)
Counters ==
    {"tabSwitchCount", "screenInactiveCount", "aiDetectionCount",
     "rapidTypingCount", "clipboardOperationCount", "webClipboardCount"}

\* C13: tabSwitchCount, screenInactiveCount, aiDetectionCount,
\* rapidTypingCount, clipboardOperationCount and webClipboardCount never
\* decrease over a step that is not resetState(), and resetState() leaves each
\* of them 0.
C13_CountersMonotonic ==
    /\ [][~ResetState =>
            \A k \in Counters : Counter(state', k) >= Counter(state, k)]_vars
    /\ [][ResetState => \A k \in Counters : Counter(state', k) = 0]_vars

\* a loss of focus and a paste were counted, and the counts were kept when the
\* focus came back
C13_CountsKeptOverFocus ==
    /\ rev = "second" /\ state.hasScreenFocus
    /\ Counter(state, "screenInactiveCount") >= 1
    /\ Counter(state, "clipboardOperationCount") >= 1
    /\ Len(emitted) > 0 /\ emitted[Len(emitted)].payload = state

\* C14: on every visibility change, in every revision: when the document has
\* become hidden tabSwitchCount grows by one, and when the handler returns
\* isTabActive tells whether the document is visible.
C14_VisibilityTracked ==
    [][(OnVisibilityChange \/ BasicVisibilityChange)
          => /\ state'.isTabActive = documentVisible'
             /\ ~documentVisible'
                  => Counter(state', "tabSwitchCount")
                        = Counter(state, "tabSwitchCount") + 1]_vars

(***************************************************************************)
(* SpecInactivity: pointer moves and key presses with the inactivity       *)
(* timer, within the span of SpecTimers and after                          *)
(* setOptions({inactivityTimeout: 3000}).  The key pressed is Shift, which *)
(* is not counted as a typed character.                                    *)
(***************************************************************************)
InaKeys == {<<"Shift", FALSE>>}

\* a mousemove or a keydown event
UserActivity ==
    \/ \E p \in TimPoints : OnMouseMove(p[1], p[2])
    \/ \E k \in InaKeys : OnKeyDown(k[1], k[2])

NextInactivity ==
    \/ CheckMultipleScreens(FALSE)
    \/ /\ options = defaultOptions /\ timers = {}
       /\ SetOptions([inactivityTimeout |-> 3000])
    \/ \E p \in TimPoints :
          /\ lastMousePosition # [x |-> p[1], y |-> p[2]]
          /\ OnMouseMove(p[1], p[2]) /\ TimersLimit'
    \/ \E k \in InaKeys : OnKeyDown(k[1], k[2]) /\ TimersLimit'
    \/ InactivityTimeout
    \/ state.hasSuspiciousActivity /\ ResetState
    \/ Cleanup
    \/ Tick

SpecInactivity == InitTimers /\ [][NextInactivity]_vars

\* the event loop runs a callback whose delay has elapsed, and time passes
SpecInactivityFair ==
    /\ SpecInactivity
    /\ WF_vars(InactivityTimeout)
    /\ WF_vars(Tick)

InactivityPending(id) == \E t \in timers : t.id = id /\ t.kind = "inactivity"

\* C15: after a mousemove or keydown event, if no further one occurs for
\* inactivityTimeout ms and cleanup() is not called, the inactivity timer
\* fires exactly once and hasSuspiciousActivity becomes true; while such events
\* keep arriving less than inactivityTimeout apart the timer never fires.  Each
\* such event leaves exactly one inactivity timer, the one it armed, due
\* inactivityTimeout later; the clock does not pass a pending timer; a timer
\* goes away only in such an event, in cleanup() or by firing when due, which
\* sets the flag and arms nothing; and every pending timer goes away.
C15_InactivityTimerFires ==
    /\ [][UserActivity =>
            /\ CountOf(timers', "inactivity") = 1
            /\ \A t \in timers' :
                  t.kind = "inactivity"
                     => /\ t.id = inactivityTimer'
                        /\ t.due = now + options.inactivityTimeout]_vars
    /\ [](\A t \in timers : t.due >= now)
    /\ [][(\E t \in timers \ timers' : t.kind = "inactivity")
            => \/ UserActivity
               \/ Cleanup
               \/ /\ InactivityTimeout
                  /\ \A t \in timers \ timers' : t.due <= now
                  /\ state'.hasSuspiciousActivity
                  /\ CountOf(timers', "inactivity") = 0]_vars
    /\ \A id \in TimerIds : InactivityPending(id) ~> ~InactivityPending(id)

\* the pointer moved once or more, slowly, and then rested for
\* inactivityTimeout: the timer has fired and nothing is pending
C15_FiredAfterRest ==
    /\ Ready /\ lastMousePosition # [x |-> 0, y |-> 0]
    /\ mouseMovementCount = 0 /\ state.suspiciousPatterns = <<>>
    /\ now >= state.lastMouseMove + options.inactivityTimeout
    /\ state.hasSuspiciousActivity
    /\ inactivityTimer = -1 /\ timers = {}
    /\ Len(emitted) = 1 /\ emitted[1].payload = state

(***************************************************************************)
(* SpecTyping: a burst of TypChars printable keys, the first and the last  *)
(* TypSpan ms apart and the others evenly between them on the millisecond  *)
(* clock, followed by keys that come either TypGap or TypPause ms after    *)
(* the one before.  The clock does not tick within a handler run.          *)
(***************************************************************************)
TypChars == 150       \* keys of the burst
TypSpan == 60000      \* ms from the first key of the burst to the last
TypGap == 400         \* ms between two keys after the burst
TypPause == 6000      \* ms of a pause after the burst
TypMaxAfter == 13000  \* ms explored after the burst
TypTolerance == 5     \* percent, what "approximately" allows

\* when the k-th key of the burst is pressed, k = 0 .. TypChars - 1
KeyTime(k) == 1000 + (k * TypSpan + (TypChars - 1) \div 2) \div (TypChars - 1)

BurstEnd == KeyTime(TypChars - 1)

\* a key has been pressed at the present reading of the clock: the inactivity
\* timer was armed at it (keyboardActivity and lastKeyPress are set from the
\* start)
KeyPressedNow ==
    \E t \in timers : t.kind = "inactivity" /\ t.due = now + options.inactivityTimeout

TypingLimit ==
    /\ now <= BurstEnd + TypMaxAfter
    /\ \A i \in DOMAIN state.suspiciousPatterns :
          state.suspiciousPatterns[i].timestamp <= now

TypeKey == ~KeyPressedNow /\ OnKeyDown("a", FALSE) /\ TypingLimit'

\* the time to the next key of the burst passes
BurstGap ==
    /\ KeyPressedNow
    /\ \E k \in 0..(TypChars - 2) :
          now = KeyTime(k) /\ AdvanceTime(KeyTime(k + 1) - now)

\* after the burst: the time to the next key passes
LaterGap ==
    /\ KeyPressedNow /\ now >= BurstEnd
    /\ \E d \in {TypGap, TypPause} : AdvanceTime(d) /\ TypingLimit'

InitTyping == \E r \in {"first", "second"} : InitOf(r)

NextTyping ==
    \/ CheckMultipleScreens(FALSE)
    \/ TypeKey
    \/ BurstGap
    \/ LaterGap

SpecTyping == InitTyping /\ [][NextTyping]_vars

\* the speed sp is within TypTolerance percent of k
Approximately(sp, k) ==
    /\ sp.den > 0
    /\ 100 * Abs(sp.num - k * sp.den) <= TypTolerance * k * sp.den

\* C16: typing 150 printable characters at uniform spacing over exactly 60
\* seconds yields a typingSpeed of approximately 150 characters per minute
\* after the last key press.
C16_UniformTypingSpeed ==
    (KeyPressedNow /\ now = BurstEnd)
        => Approximately(state.typingSpeed, (TypChars * 60000) \div TypSpan)

\* C17: the typing window is reset when, and only when, 5 seconds pass with no
\* key press: a key less than 5 seconds after the one before continues the
\* window (same start, one character more), and the first key after a pause
\* longer than 5 seconds starts a new window holding that key alone.  There
\* is a key before once the inactivity timer has been armed.
C17_WindowResetOnPauseOnly ==
    [][(OnKeyDown("a", FALSE) /\ inactivityTimer # 0)
          => /\ now - state.lastKeyPress < 5000
                  => /\ typingStartTime # 0
                     /\ typingStartTime' = typingStartTime
                     /\ typingCharacterCount' = typingCharacterCount + 1
             /\ now - state.lastKeyPress > 5000
                  => /\ typingStartTime' = now
                     /\ typingCharacterCount' = 1]_vars

\* C18: no handler lets an error escape: for every paste, copy, key, mouse,
\* focus, blur and visibility event, a clipboard event whose target is null
\* included, the handler returns normally.
C18_NoErrorEscapes == ~thrown

(***************************************************************************)
(* SpecPoll: the clipboard poll next to pastes of the same texts.  The     *)
(* clock advances 5000 ms at a time, the period of the poll.               *)
(***************************************************************************)
PollMaxTicks == 2     \* advances of the clock, 5000 ms each
PollMaxPastes == 1    \* pastes recorded

PollTexts == {"chatgpt", "ChatGPT: in summary, the algorithm"}
PollResults == PollTexts \cup {"rejected"}

PollLimit ==
    /\ now <= 1000 + PollMaxTicks * 5000
    /\ Len(state.clipboardHistory) <= PollMaxPastes

InitPoll == \E r \in {"first", "second"} : InitOf(r)

NextPoll ==
    \/ CheckMultipleScreens(FALSE)
    \/ \E result \in PollResults : ClipboardPoll(result)
    \/ \E text \in PollTexts : OnPaste(text, InputEl) /\ PollLimit'
    \/ AdvanceTime(5000) /\ PollLimit'

SpecPoll == InitPoll /\ [][NextPoll]_vars

\* C19: a tick of the clipboard poll whose read is rejected leaves
\* DetectionState unchanged and emits no event, and the poll goes on: the
\* next tick is due one period later.
C19_RejectedReadIgnored ==
    [][ClipboardPoll("rejected")
          => /\ state' = state
             /\ emitted' = <<>>
             /\ pollInterval'.active
             /\ pollInterval'.due = pollInterval.due + 5000]_vars

\* the first tick was rejected, and the second, one period later, has read
\* the clipboard and found a text of an AI tool
C19_ReadAfterRejection ==
    /\ Ready /\ now = 11000 /\ pollInterval.due = 16000
    /\ state.clipboardHistory = <<>>
    /\ emitted # <<>>
    /\ \/ rev = "first" /\ state.aiDetectionCount = 1
       \/ rev = "second" /\ Len(state.suspiciousPatterns) = 1

\* C20: the clipboard poll runs the same AI check as a paste: for every state
\* and every text, a tick that reads the text leaves hasAIUsage and
\* aiDetectionCount as a paste of that text would.
C20_PollChecksAsPaste ==
    [][\A text \in PollTexts :
          ClipboardPoll(text)
             => LET paste == IF rev = "first" THEN handlePasteFirst(Cur, text)
                             ELSE handlePasteSecond(Cur, text, InputEl)
                IN  /\ state'.hasAIUsage = paste.st.hasAIUsage
                    /\ state'.aiDetectionCount = paste.st.aiDetectionCount]_vars

\* C21: whenever the number of recorded suspicious patterns has reached
\* patternDetectionThreshold, hasSuspiciousActivity is true, whichever handlers
\* recorded the entries.
C21_PatternCountFlags ==
    Len(state.suspiciousPatterns) >= options.patternDetectionThreshold
        => state.hasSuspiciousActivity

(***************************************************************************)
(* SpecOptions: setOptions() at any moment of a session of key presses and *)
(* pastes.  The clock advances 2000 ms at a time; two keys 2000 ms apart   *)
(* give a typing speed of 60 characters per minute.                        *)
(***************************************************************************)
OptMaxKeys == 2       \* characters of a typing window
OptMaxPastes == 2     \* entries of the clipboard history
OptMaxTicks == 1      \* advances of the clock, 2000 ms each

OptionsLimit ==
    /\ typingCharacterCount <= OptMaxKeys
    /\ state.rapidTypingCount <= OptMaxKeys
    /\ Len(state.clipboardHistory) <= OptMaxPastes
    /\ state.aiDetectionCount <= OptMaxPastes
    /\ now <= 1000 + OptMaxTicks * 2000

OptOverrides ==
    {[typingSpeedThreshold |-> 50],
     [clipboardHistorySize |-> 1], [clipboardHistorySize |-> 2]}
OptTexts == {"hello", "chatgpt"}

InitOptions == \E r \in {"first", "second"} : InitOf(r)

NextOptions ==
    \/ CheckMultipleScreens(FALSE)
    \/ \E partial \in OptOverrides : SetOptions(partial)
    \/ OnKeyDown("a", FALSE) /\ OptionsLimit'
    \/ \E text \in OptTexts : OnPaste(text, InputEl) /\ OptionsLimit'
    \/ AdvanceTime(2000) /\ OptionsLimit'

SpecOptions == InitOptions /\ [][NextOptions]_vars

\* the score of checkForAIUsage (second revision) on the state st, were its
\* two comparisons made against the options
ScoreByOptions(st, text) ==
    Len(detectedPatterns[text])
    + (IF SpeedExceeds(st.typingSpeed, options.typingSpeedThreshold) THEN 2 ELSE 0)
    + (IF Len(st.clipboardHistory) > options.clipboardHistorySize THEN 1 ELSE 0)

\* C22: every threshold comparison uses the current value of its option and
\* none a constant in its place: after any setOptions, the AI check of a paste
\* (second revision) weighs the typing speed against typingSpeedThreshold and
\* the history length, taken with the paste appended, against
\* clipboardHistorySize, and flags AI usage from a score of 3.
C22_ChecksUseOptions ==
    [][\A text \in OptTexts :
          (rev = "second" /\ OnPaste(text, InputEl))
             => state'.hasAIUsage
                   = (\/ state.hasAIUsage
                      \/ ScoreByOptions(
                            [state EXCEPT !.clipboardHistory = state'.clipboardHistory],
                            text) >= 3)]_vars

\* C23: setOptions(partial) replaces exactly the options named in partial:
\* every option not named keeps its value, DetectionState is unchanged, no
\* event is emitted and no pending timer is cancelled or rearmed.
C23_SetOptionsFrame ==
    [][\A partial \in OptOverrides :
          SetOptions(partial)
             => /\ DOMAIN options' = DOMAIN options
                /\ \A k \in DOMAIN options :
                      options'[k] = IF k \in DOMAIN partial THEN partial[k]
                                    ELSE options[k]
                /\ state' = state
                /\ emitted' = <<>>
                /\ timers' = timers
                /\ inactivityTimer' = inactivityTimer
                /\ screenFocusTimer' = screenFocusTimer
                /\ pollInterval' = pollInterval]_vars

\* both overrides were made, the later one after a key press armed the
\* inactivity timer and a paste was recorded
C23_OverriddenMidSession ==
    /\ Ready /\ now = 1000 /\ emitted = <<>>
    /\ options.typingSpeedThreshold = 50 /\ options.clipboardHistorySize = 1
    /\ CountOf(timers, "inactivity") = 1
    /\ Len(state.clipboardHistory) >= 1

\* C24: resetState() tears down no listener and emits exactly one stateChange,
\* which carries the reset snapshot: the DOM listeners registered before it
\* are registered after it.
C24_ResetKeepsListeners ==
    [][ResetState => /\ listeners' = listeners
                     /\ Len(emitted') = 1
                     /\ emitted'[1].topic = "stateChange"
                     /\ emitted'[1].payload = state'
                     /\ ResetSnapshot(emitted'[1].payload)]_vars

\* resetState() has run in a session that was under way, and every listener
\* of the constructor is registered
C24_ListenersAfterReset ==
    /\ Ready /\ now > 1000
    /\ state.lastMouseMove = now /\ state.lastKeyPress = now
    /\ state.lastActiveTime = now
    /\ lastMousePosition # [x |-> 0, y |-> 0]
    /\ ResetSnapshot(state)
    /\ Len(emitted) = 1
    /\ listeners = IF rev = "first" THEN initializeDetectionsFirst
                   ELSE initializeDetectionsSecond

(***************************************************************************)
(* Snapshots.  { ...this.state } copies the fields of the state object:    *)
(* the two arrays of the copy are the arrays of the manager, which the     *)
(* handlers change in place (unshift, pop, push) and only resetState()     *)
(* replaces.  src/unnamed/part_001 hands its listeners this.state itself.  *)
(***************************************************************************)
\* what the holder of the shallow copy snap reads once the state is st;
\* replaced: new arrays have been assigned since the copy was made
SnapshotLater(snap, st, replaced) ==
    IF replaced THEN snap
    ELSE [snap EXCEPT !.clipboardHistory = st.clipboardHistory,
                      !.suspiciousPatterns = st.suspiciousPatterns]

\* C25: reads are copy-on-read: a snapshot obtained from getState(), or
\* received as the payload of a notification, is not altered by later handler
\* activity.
C25_SnapshotsUnaltered ==
    [][IF rev = "basic"
       THEN \A i \in DOMAIN emitted : state' = emitted[i].payload
       ELSE SnapshotLater(getState, state', ResetState) = getState]_vars

\* the first n entries of seq
Take(seq, n) == SubSeq(seq, 1, Min(n, Len(seq)))

\* C26: in the capped revision, after any sequence of k non-empty pastes under
\* a fixed clipboardHistorySize N, clipboardHistory is the most recent
\* min(k, N) pasted texts, newest first: a paste into a history within the cap
\* puts its text first and keeps the N - 1 newest of the others.
C26_NewestFirstWithinCap ==
    [][\A text \in OptTexts :
          (/\ rev = "first"
           /\ Len(state.clipboardHistory) <= options.clipboardHistorySize
           /\ OnPaste(text, InputEl))
             => state'.clipboardHistory
                   = Take(<<text>> \o state.clipboardHistory,
                          options.clipboardHistorySize)]_vars

\* three pastes under a cap of 2: "chatgpt", "hello", "chatgpt"; the first
\* was evicted
C26_OldestEvicted ==
    /\ rev = "first" /\ options.clipboardHistorySize = 2
    /\ state.clipboardHistory = <<"chatgpt", "hello">>
    /\ state.aiDetectionCount = 2
    /\ now = 1000

\* C27: in the capped revision the bound is enforced against the current
\* option value: after a paste clipboardHistory is no longer than
\* clipboardHistorySize, also when setOptions has lowered it below the length
\* of the history.
C27_CapFollowsOption ==
    [][\A text \in OptTexts :
          (rev = "first" /\ text # "" /\ OnPaste(text, InputEl))
             => Len(state'.clipboardHistory) <= options.clipboardHistorySize]_vars

(***************************************************************************)
(* SpecMouse: pointer moves between three points, two of them 700 px apart *)
(* and the third 600 px from the first (Manhattan distance), with tab      *)
(* switches and resetState().  The clock advances 5000 ms at a time.       *)
(***************************************************************************)
MouMaxMoves == 3      \* moves counted as long ones
MouMaxTicks == 1      \* advances of the clock, 5000 ms each

MousePoints == {<<0, 0>>, <<700, 0>>, <<300, 300>>}

MouseLimit ==
    /\ mouseMovementCount <= MouMaxMoves
    /\ Counter(state, "tabSwitchCount") + Counter(state, "screenInactiveCount")
          <= MouMaxTicks
    /\ now <= 1000 + MouMaxTicks * 5000

InitMouse == \E r \in {"first", "second"} : InitOf(r)

NextMouse ==
    \/ CheckMultipleScreens(FALSE)
    \/ \E p \in MousePoints : OnMouseMove(p[1], p[2]) /\ MouseLimit'
    \/ OnVisibilityChange /\ MouseLimit'
    \/ ResetState
    \/ AdvanceTime(5000) /\ MouseLimit'

SpecMouse == InitMouse /\ [][NextMouse]_vars

\* the move to (x, y) is a long one
LongMove(x, y) ==
    Abs(x - lastMousePosition.x) + Abs(y - lastMousePosition.y)
        > options.mouseMovementThreshold

\* C28: rapid mouse movement flags suspicious activity exactly when the number
\* of moves whose Manhattan distance from the previous pointer position
\* exceeds mouseMovementThreshold has become greater than
\* suspiciousActivityThreshold since construction or the last resetState():
\* the count starts at 0, a long move adds one to it and no other step but
\* resetState(), which zeroes it, changes it; a mouse move sets the flag when
\* it is a long one that takes the count above the threshold, and otherwise
\* leaves the flag as it was.
C28_RapidMouseRule ==
    /\ [][\A p \in MousePoints :
            OnMouseMove(p[1], p[2])
               => LET long == LongMove(p[1], p[2])
                      over == long /\ mouseMovementCount + 1
                                         > options.suspiciousActivityThreshold
                  IN  /\ mouseMovementCount'
                            = mouseMovementCount + (IF long THEN 1 ELSE 0)
                      /\ lastMousePosition' = [x |-> p[1], y |-> p[2]]
                      /\ state'.hasSuspiciousActivity
                            = (state.hasSuspiciousActivity \/ over)]_vars
    /\ [][ResetState => mouseMovementCount' = 0]_vars
    /\ [][mouseMovementCount' # mouseMovementCount
            => (ResetState \/ \E p \in MousePoints : OnMouseMove(p[1], p[2]))]_vars

\* with the defaults (600, 2): two long moves were counted without the flag,
\* and the third has set it
C28_ThirdLongMoveFlags ==
    /\ Ready /\ options = defaultOptions
    /\ mouseMovementCount = 3 /\ state.hasSuspiciousActivity
    /\ Counter(state, "tabSwitchCount") = 0
    /\ \E i \in DOMAIN state.suspiciousPatterns :
          state.suspiciousPatterns[i].message = "Rapid mouse movement detected"
    /\ Len(emitted) > 0 /\ emitted[Len(emitted)].payload = state

(***************************************************************************)
(* SpecKeys: key presses with and without ctrl or meta, under the default  *)
(* aiDetectionThreshold (1) or after setOptions({aiDetectionThreshold: 2}) *)
(* on a new manager, with resetState().  The clock advances 2000 ms at a   *)
(* time.                                                                   *)
(***************************************************************************)
KeyMaxShortcuts == 2  \* shortcuts counted in aiDetectionCount
KeyMaxChars == 2      \* characters of a typing window, and rapid typings
KeyMaxTicks == 1      \* advances of the clock, 2000 ms each

\* <<event.key, event.ctrlKey || event.metaKey>>
KeyEvents ==
    {<<"c", TRUE>>, <<"v", TRUE>>, <<"a", TRUE>>, <<"a", FALSE>>,
     <<"z", TRUE>>, <<"Enter", FALSE>>, <<"Control", TRUE>>}

KeysLimit ==
    /\ state.aiDetectionCount <= KeyMaxShortcuts
    /\ typingCharacterCount <= KeyMaxChars
    /\ state.rapidTypingCount <= KeyMaxChars
    /\ now <= 1000 + KeyMaxTicks * 2000

InitKeys == \E r \in {"first", "second"} : InitOf(r)

NextKeys ==
    \/ CheckMultipleScreens(FALSE)
    \/ /\ options = defaultOptions /\ timers = {}
       /\ SetOptions([aiDetectionThreshold |-> 2])
    \/ \E k \in KeyEvents : OnKeyDown(k[1], k[2]) /\ KeysLimit'
    \/ ResetState
    \/ AdvanceTime(2000) /\ KeysLimit'

SpecKeys == InitKeys /\ [][NextKeys]_vars

\* C29: every keydown with ctrl or meta held and key "c", "v" or "a"
\* increments aiDetectionCount by exactly one and then sets hasAIUsage iff
\* aiDetectionCount >= aiDetectionThreshold; a keydown without ctrl or meta,
\* or with another key, never changes aiDetectionCount.
C29_ShortcutsCounted ==
    [][\A k \in KeyEvents :
          OnKeyDown(k[1], k[2])
             => IF k[2] /\ k[1] \in {"c", "v", "a"}
                THEN /\ state'.aiDetectionCount = state.aiDetectionCount + 1
                     /\ state'.hasAIUsage
                           = (\/ state.hasAIUsage
                              \/ state'.aiDetectionCount
                                    >= options.aiDetectionThreshold)
                ELSE state'.aiDetectionCount = state.aiDetectionCount]_vars

\* under a threshold of 2 the second shortcut has set hasAIUsage
C29_SecondShortcutFlags ==
    /\ Ready /\ options.aiDetectionThreshold = 2
    /\ state.aiDetectionCount = 2 /\ state.hasAIUsage
    /\ state.lastKeyPress = now
    /\ Len(emitted) > 0 /\ emitted[Len(emitted)].payload = state

(***************************************************************************)
(* SpecScore: pastes into an input of the second revision, with or without *)
(* a key typed before them, and resetState().  The clock stands still, so  *)
(* typingSpeed is 0 before the key and Infinity after it.                  *)
(***************************************************************************)
ScoMaxPastes == 6  \* entries of clipboardHistory
ScoMaxKeys == 1    \* characters typed

\* texts with one, two and three catalog hits ("consequently" and
\* "implementation" are listed twice in the catalog)
ScoreTexts == {"chatgpt", "Consequently", "implementation, therefore"}

ScoreLimit ==
    /\ Len(state.clipboardHistory) <= ScoMaxPastes
    /\ typingCharacterCount <= ScoMaxKeys

InitScore == InitOf("second")

NextScore ==
    \/ CheckMultipleScreens(FALSE)
    \/ OnKeyDown("a", FALSE) /\ ScoreLimit'
    \/ \E text \in ScoreTexts : OnPaste(text, InputEl) /\ ScoreLimit'
    \/ ResetState

SpecScore == InitScore /\ [][NextScore]_vars

\* the number of catalog entries that occur in the lower-cased text
catalogHits ==
    [t \in ScoreTexts |->
        Cardinality({i \in DOMAIN aiDetectionPatternsSecond :
                        Includes(ToLowerCase(t), aiDetectionPatternsSecond[i])})]

\* the score of a text against a state whose history holds the paste
WeightedScore(st, text) ==
    catalogHits[text]
    + (IF SpeedExceeds(st.typingSpeed, 150) THEN 2 ELSE 0)
    + (IF Len(st.clipboardHistory) > 5 THEN 1 ELSE 0)

\* C30: in the weighted revision the AI-usage check of a paste is true
\* (hasAIUsage is set) exactly when score >= 3, where score is the number of
\* catalog entries occurring in the lower-cased text (an entry listed twice
\* counts twice), plus 2 if typingSpeed > 150, plus 1 if the history, taken
\* after the paste was appended, is longer than 5.
C30_WeightedScore ==
    [][\A text \in ScoreTexts :
          (rev = "second" /\ OnPaste(text, InputEl))
             => /\ Len(state'.clipboardHistory) = Len(state.clipboardHistory) + 1
                /\ state'.hasAIUsage
                      = (state.hasAIUsage \/ WeightedScore(state', text) >= 3)]_vars

\* six pastes of a text with two hits and no typing: the sixth one flags
C30_SixthPasteFlags ==
    /\ Ready /\ rev = "second"
    /\ Len(state.clipboardHistory) = 6
    /\ \A i \in 1..6 : state.clipboardHistory[i].content = "Consequently"
    /\ state.typingSpeed = ZeroSpeed
    /\ state.hasAIUsage
    /\ Len(emitted) > 0 /\ emitted[Len(emitted)].payload = state

(***************************************************************************)
(* SpecPlain: the pastes of SpecScore with a text that holds no catalog    *)
(* phrase and one that holds a phrase listed twice.                        *)
(***************************************************************************)
PlainTexts == {"hello", "Consequently"}

NextPlain ==
    \/ CheckMultipleScreens(FALSE)
    \/ OnKeyDown("a", FALSE) /\ ScoreLimit'
    \/ \E text \in PlainTexts : OnPaste(text, InputEl) /\ ScoreLimit'
    \/ ResetState

SpecPlain == InitScore /\ [][NextPlain]_vars

\* C31: in the weighted revision a paste of a text in which no catalog
\* phrase occurs never sets hasAIUsage, whatever typingSpeed and the length
\* of clipboardHistory are.
C31_NoPhraseNoFlag ==
    [][\A text \in PlainTexts :
          (/\ rev = "second" /\ OnPaste(text, InputEl)
           /\ Len(detectedPatterns[text]) = 0
           /\ ~state.hasAIUsage)
             => ~state'.hasAIUsage]_vars

(***************************************************************************)
(* SpecQuiet: timers armed before resetState().  The DOM events (blur and  *)
(* pointer moves) come in the first millisecond of the session, at clock   *)
(* 1000; resetState() is called later, and after it only the timers and    *)
(* the clock run.                                                          *)
(***************************************************************************)
\* resetState() has run: lastActiveTime is later than the DOM events
WasReset == state.lastActiveTime > 1000

NextQuiet ==
    \/ CheckMultipleScreens(FALSE)
    \/ /\ options = defaultOptions /\ timers = {}
       /\ SetOptions([inactivityTimeout |-> 3000])
    \/ ~WasReset /\ now = 1000 /\ OnBlur /\ TimersLimit'
    \/ \E p \in TimPoints :
          /\ ~WasReset /\ now = 1000
          /\ lastMousePosition # [x |-> p[1], y |-> p[2]]
          /\ OnMouseMove(p[1], p[2]) /\ TimersLimit'
    \/ ScreenFocusTimeout
    \/ InactivityTimeout
    \/ now > 1000 /\ ResetState
    \/ Tick

SpecQuiet == InitTimers /\ [][NextQuiet]_vars

\* C32: resetState() leaves nothing pending that can change the reset
\* state: after resetState(), with no new DOM event and no poll tick,
\* hasSuspiciousActivity stays false, even if a blur timer or an inactivity
\* timer was armed before the reset.
C32_NothingPendingAfterReset ==
    WasReset => ~state.hasSuspiciousActivity

(***************************************************************************)
(* SpecFresh: the pointer moves of SpecMouse with the inactivity timer     *)
(* they arm, after setOptions({inactivityTimeout: 5000}) on a new manager, *)
(* so that the timer has fired before resetState() is called.              *)
(***************************************************************************)
NextFresh ==
    \/ CheckMultipleScreens(FALSE)
    \/ /\ options = defaultOptions /\ timers = {}
       /\ SetOptions([inactivityTimeout |-> 5000])
    \/ \E p \in MousePoints : OnMouseMove(p[1], p[2]) /\ MouseLimit'
    \/ InactivityTimeout
    \/ ResetState
    \/ AdvanceTime(5000) /\ MouseLimit'

SpecFresh == InitMouse /\ [][NextFresh]_vars

\* the fields of a manager constructed when resetState() was called: the
\* state resetState() assigned, and lastMousePosition as declared
FreshDetector(d) == [CurAt(d) EXCEPT !.lmp = [x |-> 0, y |-> 0]]

\* C33: after resetState() with no timer pending the detector is equivalent
\* to a freshly constructed one: the DetectionState after the next event is
\* the one a fresh detector has after the same event (the first mouse move
\* after a reset is measured from pointer position (0,0)).
C33_ResetEqualsFresh ==
    [][\A p \in MousePoints :
          (Fresh /\ timers = {} /\ OnMouseMove(p[1], p[2]))
             => \E d \in Drift :
                   state' = handleMouseMove(FreshDetector(d), p[1], p[2]).st]_vars

\* C34: typingSpeed is a finite, non-negative number at every reachable
\* state: the rate is never computed with an elapsed time of zero, so the
\* first printable keypress of a typing window, which starts the window in
\* the same handler run, neither counts as rapid typing nor sets
\* hasSuspiciousActivity.
C34_TypingSpeedFinite ==
    /\ [](state.typingSpeed.den > 0 /\ state.typingSpeed.num >= 0)
    /\ [][\A k \in KeyEvents :
             (typingStartTime = 0 /\ OnKeyDown(k[1], k[2]))
                => /\ state'.rapidTypingCount = state.rapidTypingCount
                   /\ state'.hasSuspiciousActivity = state.hasSuspiciousActivity]_vars

(***************************************************************************)
(* SpecCounts: pastes and copies of the second revision on an input, a div *)
(* and a null target, with resetState().  The clock stands still.          *)
(***************************************************************************)
CntMaxOps == 3  \* entries of clipboardHistory

CountsLimit == Len(state.clipboardHistory) <= CntMaxOps

NextCounts ==
    \/ CheckMultipleScreens(FALSE)
    \/ \E text \in {"", "hello"}, target \in ClipTargets :
          OnPaste(text, target) /\ CountsLimit'
    \/ \E text \in {"", "hello"}, target \in ClipTargets :
          OnCopy(text, target) /\ CountsLimit'
    \/ ResetState

SpecCounts == InitScore /\ [][NextCounts]_vars

MgrMaxCalls == 2      \* calls in flight
MgrMaxIntervals == 2  \* intervals running

ManagerLimit ==
    /\ Cardinality(manager.calls) <= MgrMaxCalls
    /\ Cardinality(manager.intervals) <= MgrMaxIntervals

InitManager == InitOf("second")

NextManager ==
    \/ StartAutoCapture /\ ManagerLimit'
    \/ StopAutoCapture
    \/ Initialize /\ ManagerLimit'
    \/ CaptureScreenshots /\ ManagerLimit'
    \/ TakeManualScreenshot /\ ManagerLimit'
    \/ ManagerCleanup
    \/ \E c \in manager.calls, granted \in BOOLEAN :
          InitializeSettles(c, granted) /\ ManagerLimit'
    \/ \E c \in manager.calls : SaveSettles(c) /\ ManagerLimit'
    \/ \E i \in manager.intervals : IntervalTick(i) /\ ManagerLimit'

SpecManager == InitManager /\ [][NextManager]_vars

\* C36: for every interleaving of startAutoCapture() and stopAutoCapture(),
\* a second startAutoCapture() during the awaits of an earlier one included,
\* at most one auto-capture interval exists at any time and
\* screenshotInterval holds its handle.
C36_OneIntervalHeld ==
    /\ Cardinality(manager.intervals) <= 1
    /\ \A i \in manager.intervals : manager.screenshotInterval = i

\* stopAutoCapture() has been called, no startAutoCapture() call since, and
\* the startAutoCapture() calls in flight at that moment have completed
Quiesced == manager.stopped /\ manager.pending = {}

\* C37: once stopAutoCapture() has been called and every startAutoCapture()
\* call in flight at that moment has completed, isCurrentlyCapturing() is
\* false and no interval tick performs a capture until startAutoCapture() is
\* called again.
C37_StoppedStaysStopped ==
    /\ [](Quiesced => ~manager.isCapturing)
    /\ [][\A i \in manager.intervals :
             (Quiesced /\ IntervalTick(i))
                => \A c \in manager'.calls : c.op = "tick" => c \in manager.calls]_vars

\* C38: between two cleanup() calls, any number of overlapping or repeated
\* calls of initialize(), captureScreenshots(), takeManualScreenshot() and
\* startAutoCapture() issue at most one getDisplayMedia request and register
\* at most one screen through initialize().
C38_OneDisplayRequest ==
    manager.requests <= 1 /\ manager.registered <= 1

(***************************************************************************)
(* SpecHook: requestPermission() called at any time on a hook of either    *)
(* kind, the requests granted or refused, and the track of the stream      *)
(* ending.                                                                 *)
(***************************************************************************)
HookMaxRequests == 3  \* requests issued
HookMaxRefused == 2   \* calls returned at the guard

HookLimit ==
    /\ hook.issued <= HookMaxRequests
    /\ hook.refused <= HookMaxRefused

InitHook ==
    /\ InitDetector("second")
    /\ manager = initialManager
    /\ \E kind \in {"screen", "camera"} : hook = initialHook(kind)

NextHook ==
    \/ \E supported \in BOOLEAN : RequestPermission(supported) /\ HookLimit'
    \/ \E r \in hook.inFlight, granted \in BOOLEAN : PermissionSettles(r, granted)
    \/ TrackEnded

SpecHook == InitHook /\ [][NextHook]_vars

\* C39: at most one media permission request is in flight at a time; a call
\* of requestPermission() made while another is pending returns without
\* issuing a request and without changing stream, permissionStatus or
\* isActive; and the in-flight flag is false again once the pending call
\* settles, granted or failed.
C39_OneRequestInFlight ==
    /\ [](Cardinality(hook.inFlight) <= 1)
    /\ [][\A supported \in BOOLEAN :
             (hook.inFlight # {} /\ RequestPermission(supported))
                => /\ hook'.inFlight = hook.inFlight
                   /\ hook'.issued = hook.issued
                   /\ hook'.stream = hook.stream
                   /\ hook'.permissionStatus = hook.permissionStatus
                   /\ hook'.isActive = hook.isActive]_vars
    /\ [][\A r \in hook.inFlight, granted \in BOOLEAN :
             PermissionSettles(r, granted) => ~hook'.isRequestingPermission]_vars

\* a call was refused at the guard while the request was pending, and the
\* request has been granted since
C39_RefusedWhilePending ==
    /\ hook.refused > 0 /\ hook.issued = 1
    /\ hook.inFlight = {} /\ ~hook.isRequestingPermission
    /\ hook.permissionStatus = "granted" /\ hook.isActive /\ hook.stream # 0

====
